---- MODULE Spec2Model ----
(***************************************************************************)
(* Model of the weather-statistics pipeline of Temp_Statistic.py:          *)
(* process_temperature_pipeline and the functions it calls                 *)
(* (get_historical_temperature, create_heatmap, create_trend_plots,        *)
(* save_temperature_data).                                                 *)
(*                                                                         *)
(* Numbers.  Weather values are whole numbers or null.  A value that may   *)
(* be null is a sequence of length at most one: << >> is null / NaN and    *)
(* <<v>> is the number v.  Statistics are kept in hundredths, so <<1050>>  *)
(* is 10.50 (the result of DataFrame.round(2)).                            *)
(*                                                                         *)
(* Time.  The wall clock `now` counts ticks of 1/TicksPerSecond seconds;   *)
(* strftime("%Y%m%d_%H%M%S") keeps the whole seconds only.                 *)
(*                                                                         *)
(* Identifiers.  aim_id n stands for the YAML key 'Aim n'.                 *)
(***************************************************************************)
EXTENDS Integers, Sequences, FiniteSets, TLC

\* ------------------------------------------------------------------ bounds
MaxLocs == 2          \* locations in the locations file
MaxClock == 3         \* last clock tick of a behaviour
TicksPerSecond == 2   \* clock ticks in one second
MaxRuns == 2          \* executions of the pipeline against one directory
MaxRecs == 4          \* daily records of a data frame in the aggregation spec

\* ------------------------------------------------------- option values
Null == << >>
Some(v) == <<v>>
IsNull(x) == x = << >>

\* A daily measurement (a temperature, a humidity, a precipitation) is counted
\* in eighths: 12 stands for 1.5 and 5 for 0.625. Eighths are binary fractions:
\* the doubles of the program hold them, and their sums, exactly. A statistic
\* after round(2) is counted in hundredths.
Unit == 8

RECURSIVE SumSeq(_)
SumSeq(s) == IF s = << >> THEN 0 ELSE Head(s) + SumSeq(Tail(s))

\* the numbers of a column, nulls skipped (pandas skipna=True)
RECURSIVE NonNull(_)
NonNull(col) ==
  IF col = << >> THEN << >>
  ELSE IF IsNull(Head(col)) THEN NonNull(Tail(col))
       ELSE <<Head(col)[1]>> \o NonNull(Tail(col))

SeqMin(s) == CHOOSE m \in {s[i] : i \in 1..Len(s)} : \A j \in 1..Len(s) : m <= s[j]
SeqMax(s) == CHOOSE m \in {s[i] : i \in 1..Len(s)} : \A j \in 1..Len(s) : m >= s[j]

\* ------------------------------------------------- round(2) on IEEE doubles
\* p/q scaled by a power of two into [1, 2): the significand of the double
RECURSIVE Normalised(_, _)
Normalised(p, q) ==
  IF p < q THEN Normalised(2 * p, q)
  ELSE IF p >= 2 * q THEN Normalised(p, 2 * q)
  ELSE <<p, q>>

\* the binary long division of r/q carried on for n more bits: <<remainder, last bit>>
RECURSIVE DivideBits(_, _, _, _)
DivideBits(r, q, bit, n) ==
  IF n = 0 THEN <<r, bit>>
  ELSE IF 2 * r >= q THEN DivideBits(2 * r - q, q, 1, n - 1)
       ELSE DivideBits(2 * r, q, 0, n - 1)

\* a/den (a, den > 0) is the exact tie (2k + 1)/200. The double nearest to a/den
\* misses it by d units of its last place, |d| <= 1/2; times 100 that is 100 d
\* units, and the units of the product k + 0.5 are 64 or 128 times larger. The
\* product is the double k + 0.5 itself, and rint goes to the even neighbour,
\* when the miss is at most half a unit of the product; otherwise the product
\* lies on the side of the miss and rint follows it.
Round2Tie(a, den, k) ==
  LET pq == Normalised(a, den)
      p == pq[1]
      q == pq[2]
      rb == DivideBits(p - q, q, 1, 52)
      r == rb[1]
      up == 2 * r > q \/ (2 * r = q /\ rb[2] = 1)
      \* |d| = miss / q
      miss == IF up THEN q - r ELSE r
      \* half a unit of the product in units of the quotient: 32 or 64, and half
      \* of that below a power of two (k + 0.5 = 0.5)
      half == (IF 100 * p < 128 * q THEN 32 ELSE 64) \div (IF k = 0 /\ ~up THEN 2 ELSE 1)
  IN IF 100 * miss <= half * q THEN (IF k % 2 = 0 THEN k ELSE k + 1)
     ELSE IF up THEN k + 1
     ELSE k

\* mutant: the mean is cut to two decimals instead of rounded
Round2Floor(num, den) == (100 * num) \div den

\* (num/den).round(2) in hundredths: numpy computes rint(x * 100) / 100 on the
\* double x = num/den. Off a tie the nearest hundredth is the result; on a tie of
\* the exact fraction the rounding errors of the division and of the product decide
Round2(num, den) ==
  LET x == 100 * num
      f == x \div den
      r == x % den
  IN IF 2 * r < den THEN f
     ELSE IF 2 * r > den THEN f + 1
     ELSE IF num > 0 THEN Round2Tie(num, den, f)
     ELSE 0 - Round2Tie(0 - num, den, (100 * (0 - num)) \div den)

\* ------------------------------------------------------ the season mapping
\* mutant: the dict lacks December
SeasonMapSaveNoDecember ==
  (1 :> "Winter") @@ (2 :> "Winter") @@
  (3 :> "Spring") @@ (4 :> "Spring") @@ (5 :> "Spring") @@
  (6 :> "Summer") @@ (7 :> "Summer") @@ (8 :> "Summer") @@
  (9 :> "Autumn") @@ (10 :> "Autumn") @@ (11 :> "Autumn")

\* the dict literal of save_temperature_data
SeasonMapSave ==
  (12 :> "Winter") @@ (1 :> "Winter") @@ (2 :> "Winter") @@
  (3 :> "Spring") @@ (4 :> "Spring") @@ (5 :> "Spring") @@
  (6 :> "Summer") @@ (7 :> "Summer") @@ (8 :> "Summer") @@
  (9 :> "Autumn") @@ (10 :> "Autumn") @@ (11 :> "Autumn")

\* mutant: the seasons are the calendar quarters
SeasonMapTrendQuarters ==
  (1 :> "Winter") @@ (2 :> "Winter") @@ (3 :> "Winter") @@
  (4 :> "Spring") @@ (5 :> "Spring") @@ (6 :> "Spring") @@
  (7 :> "Summer") @@ (8 :> "Summer") @@ (9 :> "Summer") @@
  (10 :> "Autumn") @@ (11 :> "Autumn") @@ (12 :> "Autumn")

\* the dict literal of create_trend_plots
SeasonMapTrend ==
  (12 :> "Winter") @@ (1 :> "Winter") @@ (2 :> "Winter") @@
  (3 :> "Spring") @@ (4 :> "Spring") @@ (5 :> "Spring") @@
  (6 :> "Summer") @@ (7 :> "Summer") @@ (8 :> "Summer") @@
  (9 :> "Autumn") @@ (10 :> "Autumn") @@ (11 :> "Autumn")

\* Series.map(dict): a key the dict lacks maps to NaN
MapSeries(col, d) ==
  [i \in 1..Len(col) |-> IF col[i] \in DOMAIN d THEN d[col[i]] ELSE "NaN"]

\* df['date'].dt.month and df['date'].dt.year; a date is <<year, month, day>>
DtMonth(col) == [i \in 1..Len(col) |-> col[i][2]]
DtYear(col) == [i \in 1..Len(col) |-> col[i][1]]

\* a column holding one scalar on every row (df['aim_id'] = aim_id)
Broadcast(df, v) == [i \in 1..Len(df["date"]) |-> v]

\* df[name] = col : add the column or replace it
SetCol(df, name, col) == [c \in DOMAIN df \cup {name} |-> IF c = name THEN col ELSE df[c]]

\* ------------------------------------------------------------- aggregation
Metrics == {"temperature_mean", "temperature_max", "temperature_min", "humidity", "precipitation"}
Seasons == {"Winter", "Spring", "Summer", "Autumn"}

\* the dict passed to groupby('season').agg
AggSpec ==
  [temperature_mean |-> <<"mean", "min", "max">>,
   temperature_max |-> <<"mean", "min", "max">>,
   temperature_min |-> <<"mean", "min", "max">>,
   humidity |-> <<"mean", "min", "max">>,
   precipitation |-> <<"sum", "mean", "max">>]

\* str.lower() on the season names
Lower == [Winter |-> "winter", Spring |-> "spring", Summer |-> "summer", Autumn |-> "autumn"]

\* the values of col on the rows whose key is k, in row order
RECURSIVE Pick(_, _, _)
Pick(col, keys, k) ==
  IF col = << >> THEN << >>
  ELSE (IF Head(keys) = k THEN <<Head(col)>> ELSE << >>) \o Pick(Tail(col), Tail(keys), k)

\* one aggregation of a group's values followed by round(2), in hundredths:
\* the values are eighths, so their mean is SumSeq / (Unit * Len)
AggFn(stat, vals) ==
  LET nums == NonNull(vals)
  IN CASE stat = "mean" ->
            IF nums = << >> THEN Null ELSE Some(Round2(SumSeq(nums), Unit * Len(nums)))
       [] stat = "min" -> IF nums = << >> THEN Null ELSE Some(Round2(SeqMin(nums), Unit))
       [] stat = "max" -> IF nums = << >> THEN Null ELSE Some(Round2(SeqMax(nums), Unit))
       [] stat = "sum" -> Some(Round2(SumSeq(nums), Unit))

\* grouped.index : the seasons that occur in the frame (NaN keys are dropped)
GroupIndex(df) == {df["season"][i] : i \in 1..Len(df["season"])} \cap Seasons

\* the keys f"{season.lower()}_{metric[0]}_{metric[1]}" as <<season, metric, statistic>>
StatKeys(df) ==
  {<<Lower[s], m, AggSpec[m][j]>> : s \in GroupIndex(df), m \in Metrics, j \in 1..3}

\* the seasonal entries of stats_dict for one location
SeasonalStats(df) ==
  [k \in StatKeys(df) |->
     LET s == CHOOSE x \in Seasons : Lower[x] = k[1]
     IN AggFn(k[3], Pick(df[k[2]], df["season"], s))]

\* mutant: the frame's missing values are filled in place (`df.fillna(0, inplace=True)`)
AnnotateTrendFillna(df) ==
  LET d0 == SetCol(df, "precipitation",
                   [i \in 1..Len(df["precipitation"]) |->
                      IF IsNull(df["precipitation"][i]) THEN Some(0) ELSE df["precipitation"][i]])
      d1 == SetCol(d0, "month", DtMonth(d0["date"]))
      d2 == SetCol(d1, "year", DtYear(d1["date"]))
  IN SetCol(d2, "season", MapSeries(d2["month"], SeasonMapTrend))

\* the columns create_trend_plots adds to a frame
AnnotateTrend(df) ==
  LET d1 == SetCol(df, "month", DtMonth(df["date"]))
      d2 == SetCol(d1, "year", DtYear(d1["date"]))
  IN SetCol(d2, "season", MapSeries(d2["month"], SeasonMapTrend))

\* next((d for d in all_data if d['aim_id'] == aim_id), {}) as a set of matches
Matching(all_data, aim_id) == {i \in 1..Len(all_data) : all_data[i].aim_id = aim_id}

\* mutant: the location is always taken to be the first entry (`all_data[0]`)
FirstMatchFirstEntry(all_data, aim_id) == all_data[1]

FirstMatch(all_data, aim_id) ==
  all_data[CHOOSE i \in Matching(all_data, aim_id) : \A j \in Matching(all_data, aim_id) : i <= j]

\* the columns save_temperature_data adds to a frame before to_csv
\* (the default address '' is the empty sequence)
AnnotateSave(df, aim_id, all_data) ==
  LET found == Matching(all_data, aim_id) # {}
      loc == FirstMatch(all_data, aim_id)
      d1 == SetCol(df, "aim_id", Broadcast(df, aim_id))
      d2 == SetCol(d1, "address", Broadcast(df, IF found THEN loc.address ELSE << >>))
      d3 == SetCol(d2, "latitude", Broadcast(df, IF found THEN Some(loc.lat) ELSE Null))
      d4 == SetCol(d3, "longitude", Broadcast(df, IF found THEN Some(loc.lng) ELSE Null))
      d5 == SetCol(d4, "month", DtMonth(d4["date"]))
      d6 == SetCol(d5, "year", DtYear(d5["date"]))
  IN SetCol(d6, "season", MapSeries(d6["month"], SeasonMapSave))

\* mutant: the row reads the keys 'latitude' and 'longitude', which the entries
\* of all_data do not have
StatsRowWrongKeys(df, aim_id, all_data) ==
  LET found == Matching(all_data, aim_id) # {}
      loc == FirstMatch(all_data, aim_id)
  IN [aim_id |-> aim_id,
      address |-> IF found THEN Some(loc.address) ELSE Null,
      latitude |-> Null,
      longitude |-> Null,
      stats |-> SeasonalStats(df)]

\* one row of the statistics table
StatsRow(df, aim_id, all_data) ==
  LET found == Matching(all_data, aim_id) # {}
      loc == FirstMatch(all_data, aim_id)
  IN [aim_id |-> aim_id,
      address |-> IF found THEN Some(loc.address) ELSE Null,
      latitude |-> IF found THEN Some(loc.lat) ELSE Null,
      longitude |-> IF found THEN Some(loc.lng) ELSE Null,
      stats |-> SeasonalStats(df)]

\* ------------------------------------------------- the statistics table
\* grouped.index: groupby sorts the seasons
SeasonOrder == <<"Autumn", "Spring", "Summer", "Winter">>

\* grouped.columns: the metrics in the order of the agg dict
MetricOrder ==
  <<"temperature_mean", "temperature_max", "temperature_min", "humidity", "precipitation">>

\* the first four keys of a stats_dict, written as keys of one part
IdentityKeys == << <<"aim_id">>, <<"address">>, <<"latitude">>, <<"longitude">> >>

\* every seasonal key in the order of the two loops: season, metric, statistic
StatKeySeq ==
  [n \in 1..(Len(SeasonOrder) * Len(MetricOrder) * 3) |->
     LET s == SeasonOrder[((n - 1) \div (Len(MetricOrder) * 3)) + 1]
         m == MetricOrder[(((n - 1) % (Len(MetricOrder) * 3)) \div 3) + 1]
     IN <<Lower[s], m, AggSpec[m][((n - 1) % 3) + 1]>>]

\* the keys of a stats_dict in insertion order
DictKeys(row) ==
  LET Has(key) == key \in DOMAIN row.stats
  IN IdentityKeys \o SelectSeq(StatKeySeq, Has)

\* the value of a stats_dict under a key; Null is None
DictValue(row, key) ==
  CASE key = <<"aim_id">> -> Some(row.aim_id)
    [] key = <<"address">> -> row.address
    [] key = <<"latitude">> -> row.latitude
    [] key = <<"longitude">> -> row.longitude
    [] OTHER -> row.stats[key]

\* the columns of pd.DataFrame(list of dicts): the keys of all the dicts, each
\* at the place where it is seen first
RECURSIVE FirstSeen(_)
FirstSeen(rows) ==
  IF rows = << >> THEN << >>
  ELSE LET before == FirstSeen(SubSeq(rows, 1, Len(rows) - 1))
           New(key) == \A j \in 1..Len(before) : before[j] # key
       IN before \o SelectSeq(DictKeys(rows[Len(rows)]), New)

\* pd.DataFrame(stats): one row per dict, with an empty cell (NaN, written as
\* nothing by to_csv) under every column whose key the dict lacks
DataFrame(rows) ==
  LET columns == FirstSeen(rows)
      keys == {columns[j] : j \in 1..Len(columns)}
  IN [columns |-> columns,
      rows |-> [i \in 1..Len(rows) |->
                  [c \in keys |->
                     IF Len(c) = 1 \/ c \in DOMAIN rows[i].stats
                     THEN DictValue(rows[i], c) ELSE Null]]]

\* --------------------------------------------------------------- the fetch
DailyKeys == {"time", "temperature_2m_max", "temperature_2m_min", "temperature_2m_mean",
              "relative_humidity_2m_mean", "precipitation_sum"}

\* get_historical_temperature on the outcome of requests.get(url).json():
\* net = "error" is a request or a body that raises; otherwise body is the
\* parsed JSON object.  outcome: "raise" (exc names the exception), "none" (the
\* function falls off its end) or "frame".
get_historical_temperature(resp) ==
  IF resp.net = "error" THEN [outcome |-> "raise", exc |-> "RequestException", df |-> << >>]
  ELSE IF "daily" \in DOMAIN resp.body
       THEN IF DailyKeys \subseteq DOMAIN resp.body["daily"]
            THEN [outcome |-> "frame", exc |-> "none",
                  df |-> [date |-> resp.body["daily"]["time"],
                          temperature_max |-> resp.body["daily"]["temperature_2m_max"],
                          temperature_min |-> resp.body["daily"]["temperature_2m_min"],
                          temperature_mean |-> resp.body["daily"]["temperature_2m_mean"],
                          humidity |-> resp.body["daily"]["relative_humidity_2m_mean"],
                          precipitation |-> resp.body["daily"]["precipitation_sum"]]]
            ELSE [outcome |-> "raise", exc |-> "KeyError", df |-> << >>]
       ELSE [outcome |-> "none", exc |-> "none", df |-> << >>]

RECURSIVE Gcd(_, _)
Gcd(a, b) == IF b = 0 THEN a ELSE Gcd(b, a % b)
Abs(a) == IF a < 0 THEN 0 - a ELSE a

\* df['temperature_mean'].mean(): the unrounded mean, in eighths like the
\* values, as the reduced fraction <<numerator, denominator>>; NaN when there
\* is no number
SeriesMean(col) ==
  LET nums == NonNull(col)
      g == Gcd(Abs(SumSeq(nums)), Len(nums))
  IN IF nums = << >> THEN Null ELSE Some(<<SumSeq(nums) \div g, Len(nums) \div g>>)

\* ------------------------------------------------------------------- files
\* datetime.now().strftime("%Y%m%d_%H%M%S") : the whole seconds of the clock
strftime(t) == t \div TicksPerSecond

\* mutant: the heat-map name carries no timestamp
HeatmapFileNoStamp(ts) == [prefix |-> "temperature_heatmap_", id |-> << >>, timestamp |-> 0, ext |-> ".html"]

\* mutant: the per-location CSV name carries no aim_id
DataFileNoId(aim_id, ts) == [prefix |-> "temperature_data_", id |-> << >>, timestamp |-> ts, ext |-> ".csv"]

\* the output file names; id is <<aim_id>> or << >>
HeatmapFile(ts) == [prefix |-> "temperature_heatmap_", id |-> << >>, timestamp |-> ts, ext |-> ".html"]
TrendFile(aim_id, ts) == [prefix |-> "temperature_trends_", id |-> <<aim_id>>, timestamp |-> ts, ext |-> ".png"]
SummaryFile(ts) == [prefix |-> "temperature_summary_", id |-> << >>, timestamp |-> ts, ext |-> ".json"]
DataFile(aim_id, ts) == [prefix |-> "temperature_data_", id |-> <<aim_id>>, timestamp |-> ts, ext |-> ".csv"]
StatisticsFile(ts) == [prefix |-> "temperature_statistics_", id |-> << >>, timestamp |-> ts, ext |-> ".csv"]

\* --------------------------------------------------------------- the inputs
\* the locations file: aim_id -> {address, latitude, longitude, timestamp}
Location(n) ==
  [aim_id |-> n, address |-> <<"address", n>>, latitude |-> 54 + n, longitude |-> 0 - n,
   timestamp |-> "2025-01-01"]

AimIds == 1..MaxLocs

\* the lists get_coordinates_from_yaml can return: the keys of a YAML mapping are distinct
LocationLists ==
  {l \in UNION {[1..n -> {Location(a) : a \in AimIds}] : n \in 0..MaxLocs} :
     \A i, j \in 1..Len(l) : i # j => l[i].aim_id # l[j].aim_id}

\* two `daily` objects of the archive API (null = no measurement for that day),
\* the measurements in eighths
Daily1 ==
  [time |-> <<<<2024, 1, 15>>, <<2024, 7, 15>>>>,
   temperature_2m_max |-> <<Some(5), Some(20)>>,
   temperature_2m_min |-> <<Some(1), Some(12)>>,
   temperature_2m_mean |-> <<Some(3), Some(16)>>,
   relative_humidity_2m_mean |-> <<Some(80), Some(60)>>,
   precipitation_sum |-> <<Some(2), Null>>]

Daily2 ==
  [time |-> <<<<2023, 12, 31>>>>,
   temperature_2m_max |-> <<Some(7)>>,
   temperature_2m_min |-> <<Some(2)>>,
   temperature_2m_mean |-> <<Some(4)>>,
   relative_humidity_2m_mean |-> <<Some(90)>>,
   precipitation_sum |-> <<Some(0)>>]

\* a `daily` object without the precipitation array
DailyPartial == [k \in DailyKeys \ {"precipitation_sum"} |-> Daily2[k]]

NetworkError == [net |-> "error", body |-> << >>]
NoDailyResponse == [net |-> "ok", body |-> [error |-> TRUE, reason |-> "bad request"]]
DailyResponse(d) == [net |-> "ok", body |-> [daily |-> d]]

Responses ==
  {NetworkError, NoDailyResponse, DailyResponse(DailyPartial),
   DailyResponse(Daily1), DailyResponse(Daily2)}

\* ---------------------------------------------------------------- the state
VARIABLES
  pc,                \* position of the running execution
  run,               \* number of the running execution
  now,               \* the wall clock, in ticks
  coordinates_file,  \* content of the locations file
  coordinates_list,  \* process_temperature_pipeline: coordinates_list
  idx,               \* locations the fetch loop has finished with
  temperature_data,  \* process_temperature_pipeline: temperature_data
  detailed_data,     \* process_temperature_pipeline: detailed_data, in insertion order
  k,                 \* frames the running output loop has finished with
  stamp,             \* the timestamps the running execution has formatted
  stats,             \* save_temperature_data: stats
  statistics_frame,  \* save_temperature_data: pd.DataFrame(stats), which to_csv writes
  writes,            \* every file write so far: who wrote which name, stamped when
  requests,          \* aim_ids requested by the running execution, in order
  outcomes,          \* outcome of each of these requests
  calls,             \* output functions the running execution has entered
  abort_cause,       \* what ended the running execution, if it was aborted
  heatmap,           \* create_heatmap: the centre of the map and heatmap_data, as computed
  \* cityHeatmap.py
  cpc,                   \* position in cityHeatmap.create_heatmap
  api_keys,              \* create_heatmap: api_keys, the (year, key) items in dict order
  api_limit_per_key,     \* create_heatmap: api_limit_per_key
  nodes_filtered,        \* create_heatmap: the nodes inside the polygon
  sampled_nodes,         \* create_heatmap: sampled_nodes
  yi,                    \* items of api_keys the year loop has finished with
  ni,                    \* rows of sampled_nodes the node loop has finished with
  requests_made,         \* create_heatmap: requests_made
  heat_data_historical,  \* create_heatmap: heat_data_historical
  all_temp_data,         \* create_heatmap: all_temp_data
  issued,                \* every WorldWeatherOnline request so far: year, node, outcome
  last_call,             \* the last call of get_historical_avg_temperature: response, result
  city_files,            \* the files create_heatmap has written, in order
  city_exc,              \* the exception that ended create_heatmap, if any
  \* coordinate_to_aerial.py
  apc,                   \* position in the script
  config_yaml,           \* config.yaml as the script finds it
  coordinates_yaml,      \* coordinates.yaml as the script finds it
  api_key,               \* the script's api_key, Null while unassigned
  output_dir,            \* the script's output_dir, Null while unassigned
  coordinates_opened,    \* coordinates.yaml has been opened
  ei,                    \* entries of coordinates.yaml the loop has finished with
  downloads,             \* every call of download_static_map_image so far
  aerial_files,          \* the files the downloads have written, in order
  aerial_exit,           \* how the script ended: "exit 1" or the uncaught exception
  \* coordinate_to_images.py
  ipc,                   \* position in the script
  images_config,         \* config.yaml as the script finds it
  images_yaml,           \* coordinates.yaml as the script finds it
  images_api_key,        \* the script's api_key
  coords_result,         \* what the call of get_coordinates_from_yaml did
  img_lat,               \* the script's lat
  img_lng,               \* the script's lng
  hi,                    \* headings the loop has finished with
  image_paths,           \* the script's image_paths
  headings,              \* the headings requested so far
  images_exit,           \* how the script ended: "exit" or the uncaught exception
  \* tree_detection.py and count_trees.py
  tpc,                   \* position in process_images_in_folder / process_directory
  tree_script,           \* which of the two scripts is run
  input_folder,          \* the input folder: whether it exists, and os.listdir of it
  fi,                    \* files of the listing the loop has finished with
  tree_calls,            \* every call of run_tree_detection_yolo_class so far
  tree_outputs,          \* the files these calls have written, in order
  \* street_to_coordinate.py
  stpc,                  \* position in the script
  street_config,         \* config.yaml as the script finds it
  street_address,        \* what the user types at the prompt
  geocode,               \* what the Geocoding API answers
  street_lat,            \* the script's lat
  street_lng,            \* the script's lng
  coordinates_written,   \* coordinates.yaml as the script leaves it, Null if unwritten
  images_read,           \* what coordinate_to_images reads back from it
  pipeline_read,         \* what Temp_Statistic reads back from it
  \* Temp_Statistic.get_historical_temperature: the dates of the request
  wpc,                   \* position: before or after the dates are computed
  today,                 \* the date datetime.now() falls on
  window                 \* the start_date and end_date of the request

pvars == <<pc, run, now, coordinates_file, coordinates_list, idx, temperature_data,
           detailed_data, k, stamp, stats, statistics_frame, writes, requests, outcomes, calls, abort_cause,
           heatmap>>

cvars == <<cpc, api_keys, api_limit_per_key, nodes_filtered, sampled_nodes, yi, ni,
           requests_made, heat_data_historical, all_temp_data, issued, last_call,
           city_files, city_exc>>

avars == <<apc, config_yaml, coordinates_yaml, api_key, output_dir, coordinates_opened, ei,
           downloads, aerial_files, aerial_exit>>

ivars == <<ipc, images_config, images_yaml, images_api_key, coords_result, img_lat, img_lng, hi,
           image_paths, headings, images_exit>>

tvars == <<tpc, tree_script, input_folder, fi, tree_calls, tree_outputs>>

stvars == <<stpc, street_config, street_address, geocode, street_lat, street_lng,
            coordinates_written, images_read, pipeline_read>>

wvars == <<wpc, today, window>>

\* what a step of one script leaves alone: the state of the other scripts
nonPipeline == <<cvars, avars, ivars, tvars, stvars, wvars>>
nonCity == <<pvars, avars, ivars, tvars, stvars, wvars>>
nonAerial == <<pvars, cvars, ivars, tvars, stvars, wvars>>
nonImages == <<pvars, cvars, avars, tvars, stvars, wvars>>
nonTrees == <<pvars, cvars, avars, ivars, stvars, wvars>>
nonStreet == <<pvars, cvars, avars, ivars, tvars, wvars>>
nonWindow == <<pvars, cvars, avars, ivars, tvars, stvars>>

vars == <<pvars, cvars, avars, ivars, tvars, stvars, wvars>>

\* ------------------------------------------------------------ the pipeline
\* detailed_data[aim_id] = df on an insertion-ordered dict
DictSet(dd, aim_id, df) ==
  IF \E i \in 1..Len(dd) : dd[i].aim_id = aim_id
  THEN [i \in 1..Len(dd) |-> IF dd[i].aim_id = aim_id THEN [aim_id |-> aim_id, df |-> df] ELSE dd[i]]
  ELSE Append(dd, [aim_id |-> aim_id, df |-> df])

\* the frame without rows
EmptyFrame ==
  [date |-> << >>, temperature_max |-> << >>, temperature_min |-> << >>,
   temperature_mean |-> << >>, humidity |-> << >>, precipitation |-> << >>]

\* mutant: the loop does not test `df is not None`; a missing frame counts as an empty one
LoopBodyNoNoneCheck(td, dd, coord, r) ==
  LET df == IF r.outcome = "frame" THEN r.df ELSE EmptyFrame
  IN [td |-> Append(td, [lat |-> coord.latitude, lng |-> coord.longitude,
                         avg_temp |-> SeriesMean(df["temperature_mean"]),
                         aim_id |-> coord.aim_id, address |-> coord.address]),
      dd |-> DictSet(dd, coord.aim_id, df)]

\* the body of the fetch loop for one location, given what the fetch produced
LoopBody(td, dd, coord, r) ==
  IF r.outcome = "frame"
  THEN [td |-> Append(td, [lat |-> coord.latitude, lng |-> coord.longitude,
                           avg_temp |-> SeriesMean(r.df["temperature_mean"]),
                           aim_id |-> coord.aim_id, address |-> coord.address]),
        dd |-> DictSet(dd, coord.aim_id, r.df)]
  ELSE [td |-> td, dd |-> dd]

\* mutant: the loop is left after its first iteration
LoopDoneAfterFirst(i, list) == i >= 1 \/ i = Len(list)

\* `for coord in coordinates_list` is exhausted
LoopDone(i, list) == i = Len(list)

\* mutant: the outputs are produced whether or not data was collected
AfterLoopAlways(td) == "heatmap"

\* `if temperature_data:` decides where the execution goes after the loop
AfterLoop(td) == IF td # << >> THEN "heatmap" ELSE "done"

\* sum(xs) / len(xs) as the reduced fraction <<numerator, denominator>>
Quotient(num, den) ==
  LET g == Gcd(Abs(num), den) IN <<num \div g, den \div g>>

\* mutant: the centre is computed with the floor division `//`
MapCentreFloorDiv(td) ==
  <<Quotient(SumSeq([i \in 1..Len(td) |-> td[i].lat]) \div Len(td), 1),
    Quotient(SumSeq([i \in 1..Len(td) |-> td[i].lng]) \div Len(td), 1)>>

\* create_heatmap: [center_lat, center_lng] of a non-empty temperature_data
MapCentre(td) ==
  <<Quotient(SumSeq([i \in 1..Len(td) |-> td[i].lat]), Len(td)),
    Quotient(SumSeq([i \in 1..Len(td) |-> td[i].lng]), Len(td))>>

\* create_heatmap: heatmap_data, one [lat, lng, avg_temp] per entry of temperature_data
HeatmapData(td) == [i \in 1..Len(td) |-> <<td[i].lat, td[i].lng, td[i].avg_temp>>]

NoStamp == [heat |-> Null, trend |-> Null, save |-> Null]

WriteStages == {"heatmap", "trend", "save_json", "save_csv", "save_stats"}

InitPipeline ==
  /\ pc = "start"
  /\ run = 1
  /\ now = 0
  /\ coordinates_file \in LocationLists
  /\ coordinates_list = << >>
  /\ idx = 0
  /\ temperature_data = << >>
  /\ detailed_data = << >>
  /\ k = 0
  /\ stamp = NoStamp
  /\ stats = << >>
  /\ statistics_frame = Null
  /\ writes = << >>
  /\ requests = << >>
  /\ outcomes = << >>
  /\ calls = << >>
  /\ abort_cause = "none"
  /\ heatmap = Null

\* the other scripts before they are run
IdleCity ==
  /\ cpc = "start"
  /\ api_keys = << >>
  /\ api_limit_per_key = 0
  /\ nodes_filtered = << >>
  /\ sampled_nodes = << >>
  /\ yi = 0
  /\ ni = 0
  /\ requests_made = 0
  /\ heat_data_historical = << >>
  /\ all_temp_data = << >>
  /\ issued = << >>
  /\ last_call = << >>
  /\ city_files = << >>
  /\ city_exc = "none"

IdleAerial ==
  /\ apc = "config"
  /\ config_yaml = [state |-> "missing", api_key |-> Null, satellite_output_directory |-> Null]
  /\ coordinates_yaml = [state |-> "missing", entries |-> << >>]
  /\ api_key = Null
  /\ output_dir = Null
  /\ coordinates_opened = FALSE
  /\ ei = 0
  /\ downloads = << >>
  /\ aerial_files = << >>
  /\ aerial_exit = "none"

IdleImages ==
  /\ ipc = "config"
  /\ images_config = [state |-> "missing", api_key |-> Null]
  /\ images_yaml = [state |-> "missing", top |-> "none", latitude |-> [t |-> "absent", n |-> 0, s |-> ""],
                    longitude |-> [t |-> "absent", n |-> 0, s |-> ""]]
  /\ images_api_key = Null
  /\ coords_result = << >>
  /\ img_lat = Null
  /\ img_lng = Null
  /\ hi = 0
  /\ image_paths = << >>
  /\ headings = << >>
  /\ images_exit = "none"

IdleTrees ==
  /\ tpc = "start"
  /\ tree_script = "tree_detection"
  /\ input_folder = [exists |-> FALSE, files |-> << >>]
  /\ fi = 0
  /\ tree_calls = << >>
  /\ tree_outputs = << >>

IdleStreet ==
  /\ stpc = "config"
  /\ street_config = [state |-> "missing", api_key |-> << >>]
  /\ street_address = ""
  /\ geocode = [kind |-> "error", status |-> "", lat |-> [t |-> "none", n |-> 0, s |-> ""],
                lng |-> [t |-> "none", n |-> 0, s |-> ""]]
  /\ street_lat = [t |-> "none", n |-> 0, s |-> ""]
  /\ street_lng = [t |-> "none", n |-> 0, s |-> ""]
  /\ coordinates_written = << >>
  /\ images_read = << >>
  /\ pipeline_read = << >>

IdleWindow ==
  /\ wpc = "start"
  /\ today = [year |-> 2026, month |-> 1, day |-> 1]
  /\ window = << >>

Init ==
  /\ InitPipeline
  /\ IdleCity
  /\ IdleAerial
  /\ IdleImages
  /\ IdleTrees
  /\ IdleStreet
  /\ IdleWindow

\* the positions at which the next step reads the clock
ClockReads == {"heatmap", "trend_start", "save_json"}

\* time passes; the clock matters only to the step that reads it next
Tick ==
  /\ pc \in ClockReads
  /\ now < MaxClock
  /\ now' = now + 1
  /\ UNCHANGED <<heatmap, pc, run, coordinates_file, coordinates_list, idx, temperature_data,
                 detailed_data, k, stamp, stats, statistics_frame, writes, requests, outcomes, calls, abort_cause>>
  /\ UNCHANGED nonPipeline

\* load_config, create_directories, get_coordinates_from_yaml
LoadConfig ==
  /\ pc = "start"
  /\ pc' = "fetch"
  /\ coordinates_list' = coordinates_file
  /\ UNCHANGED <<heatmap, run, now, coordinates_file, idx, temperature_data, detailed_data, k, stamp,
                 stats, statistics_frame, writes, requests, outcomes, calls, abort_cause>>
  /\ UNCHANGED nonPipeline

\* mutant: the failure to load is reported and the run goes on with the list
LoadFailsIgnored ==
  /\ pc = "start"
  /\ pc' = "fetch"
  /\ abort_cause' = "config"
  /\ coordinates_list' = coordinates_file
  /\ UNCHANGED <<heatmap, run, now, coordinates_file, idx, temperature_data,
                 detailed_data, k, stamp, stats, statistics_frame, writes, requests, outcomes, calls>>
  /\ UNCHANGED nonPipeline

\* a configuration or locations file that is missing or malformed: open or
\* yaml.safe_load raises in load_config or get_coordinates_from_yaml, or the
\* loaded document has no .get / .items
LoadFails ==
  /\ pc = "start"
  /\ pc' = "aborted"
  /\ abort_cause' = "config"
  /\ UNCHANGED <<heatmap, run, now, coordinates_file, coordinates_list, idx, temperature_data,
                 detailed_data, k, stamp, stats, statistics_frame, writes, requests, outcomes, calls>>
  /\ UNCHANGED nonPipeline

\* mutant: a location that returned no frame is requested again
FetchResponseRetry(resp) ==
  /\ pc = "fetch"
  /\ ~LoopDone(idx, coordinates_list)
  /\ \E coord \in {coordinates_list[idx + 1]} :
     \E r \in {get_historical_temperature(resp)} :
     \E b \in {LoopBody(temperature_data, detailed_data, coord, r)} :
          /\ requests' = Append(requests, coord.aim_id)
          /\ outcomes' = Append(outcomes, r.outcome)
          /\ IF r.outcome = "raise"
             THEN /\ pc' = "aborted"
                  /\ abort_cause' = r.exc
                  /\ UNCHANGED <<idx, temperature_data, detailed_data>>
             ELSE /\ temperature_data' = b.td
                  /\ detailed_data' = b.dd
                  /\ idx' = IF r.outcome = "none" THEN idx ELSE idx + 1
                  /\ UNCHANGED <<pc, abort_cause>>
  /\ UNCHANGED <<heatmap, run, now, coordinates_file, coordinates_list, k, stamp, stats, statistics_frame, writes, calls>>
  /\ UNCHANGED nonPipeline

\* one iteration of the fetch loop, the remote answering with resp
FetchResponse(resp) ==
  /\ pc = "fetch"
  /\ ~LoopDone(idx, coordinates_list)
  /\ \E coord \in {coordinates_list[idx + 1]} :
     \E r \in {get_historical_temperature(resp)} :
     \E b \in {LoopBody(temperature_data, detailed_data, coord, r)} :
          /\ requests' = Append(requests, coord.aim_id)
          /\ outcomes' = Append(outcomes, r.outcome)
          /\ IF r.outcome = "raise"
             THEN /\ pc' = "aborted"
                  /\ abort_cause' = r.exc
                  /\ UNCHANGED <<idx, temperature_data, detailed_data>>
             ELSE /\ temperature_data' = b.td
                  /\ detailed_data' = b.dd
                  /\ idx' = idx + 1
                  /\ UNCHANGED <<pc, abort_cause>>
  /\ UNCHANGED <<heatmap, run, now, coordinates_file, coordinates_list, k, stamp, stats, statistics_frame, writes, calls>>
  /\ UNCHANGED nonPipeline

Fetch ==
  /\ pc = "fetch"
  /\ ~LoopDone(idx, coordinates_list)
  /\ \E resp \in Responses : FetchResponse(resp)

\* the loop ends and `if temperature_data:` is evaluated
LoopExit ==
  /\ pc = "fetch"
  /\ LoopDone(idx, coordinates_list)
  /\ pc' = AfterLoop(temperature_data)
  /\ UNCHANGED <<heatmap, run, now, coordinates_file, coordinates_list, idx, temperature_data,
                 detailed_data, k, stamp, stats, statistics_frame, writes, requests, outcomes, calls, abort_cause>>
  /\ UNCHANGED nonPipeline

\* one file write: the execution, the name, the timestamp the execution held
\* for it, and whether the content was written in full
Written(r, name, ts) == [run |-> r, name |-> name, stamp |-> ts, complete |-> TRUE]

\* a file that was created and whose writing then raised
Truncated(r, name, ts) == [run |-> r, name |-> name, stamp |-> ts, complete |-> FALSE]

\* What one write of an output file leaves on disk, by what the environment
\* does to it:
\*   "ok"       the file is written
\*   "no_file"  creating the file raises: nothing is left
\*   "partial"  the file is created and writing its content raises
FileLeft(w, r, name, ts) ==
  IF w = "ok" THEN <<Written(r, name, ts)>>
  ELSE IF w = "partial" THEN <<Truncated(r, name, ts)>>
  ELSE << >>

\* plugins.HeatMap(heatmap_data) raises ValueError when a value of the data is
\* NaN: the avg_temp of a frame without a number
HasNaN(td) == \E i \in 1..Len(td) : td[i].avg_temp = Null

\* create_heatmap: centre and points are computed, the heat layer is made, the
\* timestamp is formatted, the map saved; nothing catches an exception of
\* plugins.HeatMap or of m.save
CreateHeatmap(w) ==
  /\ pc = "heatmap"
  /\ calls' = Append(calls, "create_heatmap")
  /\ IF temperature_data = << >>
     THEN \* sum(lats) / len(lats) raises ZeroDivisionError
          /\ pc' = "aborted"
          /\ abort_cause' = "ZeroDivisionError"
          /\ UNCHANGED <<stamp, writes, heatmap>>
     ELSE IF HasNaN(temperature_data)
     THEN \* the ValueError of plugins.HeatMap: no timestamp, no file
          /\ heatmap' = Some([location |-> MapCentre(temperature_data),
                               heatmap_data |-> HeatmapData(temperature_data)])
          /\ pc' = "aborted"
          /\ abort_cause' = "ValueError"
          /\ UNCHANGED <<stamp, writes>>
     ELSE /\ heatmap' = Some([location |-> MapCentre(temperature_data),
                               heatmap_data |-> HeatmapData(temperature_data)])
          /\ stamp' = [stamp EXCEPT !.heat = Some(strftime(now))]
          /\ writes' = writes \o FileLeft(w, run, HeatmapFile(strftime(now)), strftime(now))
          /\ pc' = IF w = "ok" THEN "trend_start" ELSE "aborted"
          /\ abort_cause' = IF w = "ok" THEN abort_cause ELSE "write"
  /\ UNCHANGED <<run, now, coordinates_file, coordinates_list, idx, temperature_data,
                 detailed_data, k, stats, statistics_frame, requests, outcomes>>
  /\ UNCHANGED nonPipeline

\* create_trend_plots is entered: its timestamp is formatted before the loop
CreateTrendPlots ==
  /\ pc = "trend_start"
  /\ calls' = Append(calls, "create_trend_plots")
  /\ stamp' = [stamp EXCEPT !.trend = Some(strftime(now))]
  /\ k' = 0
  /\ pc' = IF detailed_data = << >> THEN "save_json" ELSE "trend"
  /\ UNCHANGED <<heatmap, run, now, coordinates_file, coordinates_list, idx, temperature_data,
                 detailed_data, stats, statistics_frame, writes, requests, outcomes, abort_cause>>
  /\ UNCHANGED nonPipeline

\* one iteration of the loop of create_trend_plots: annotate the frame, save the
\* figure; nothing catches an exception of plt.savefig
TrendPlot(w) ==
  /\ pc = "trend"
  /\ k < Len(detailed_data)
  /\ LET e == detailed_data[k + 1]
     IN /\ detailed_data' = [detailed_data EXCEPT ![k + 1].df = AnnotateTrend(e.df)]
        /\ writes' = writes \o FileLeft(w, run, TrendFile(e.aim_id, stamp.trend[1]),
                                        stamp.trend[1])
  /\ IF w = "ok"
     THEN /\ k' = k + 1
          /\ pc' = IF k + 1 = Len(detailed_data) THEN "save_json" ELSE "trend"
          /\ UNCHANGED abort_cause
     ELSE /\ pc' = "aborted"
          /\ abort_cause' = "write"
          /\ UNCHANGED k
  /\ UNCHANGED <<heatmap, run, now, coordinates_file, coordinates_list, idx, temperature_data,
                 stamp, stats, statistics_frame, requests, outcomes, calls>>
  /\ UNCHANGED nonPipeline

\* save_temperature_data is entered: its timestamp is formatted, the summary
\* JSON opened and dumped; nothing catches an exception of open or json.dump
SaveSummary(w) ==
  /\ pc = "save_json"
  /\ calls' = Append(calls, "save_temperature_data")
  /\ stamp' = [stamp EXCEPT !.save = Some(strftime(now))]
  /\ writes' = writes \o FileLeft(w, run, SummaryFile(strftime(now)), strftime(now))
  /\ IF w = "ok"
     THEN /\ k' = 0
          /\ pc' = IF detailed_data = << >> THEN "save_stats" ELSE "save_csv"
          /\ UNCHANGED abort_cause
     ELSE /\ pc' = "aborted"
          /\ abort_cause' = "write"
          /\ UNCHANGED k
  /\ UNCHANGED <<heatmap, run, now, coordinates_file, coordinates_list, idx, temperature_data,
                 detailed_data, stats, statistics_frame, requests, outcomes>>
  /\ UNCHANGED nonPipeline

\* one iteration of the first loop of save_temperature_data: annotate the frame,
\* to_csv; nothing catches an exception of to_csv
SaveCsv(w) ==
  /\ pc = "save_csv"
  /\ k < Len(detailed_data)
  /\ LET e == detailed_data[k + 1]
     IN /\ detailed_data' =
             [detailed_data EXCEPT ![k + 1].df = AnnotateSave(e.df, e.aim_id, temperature_data)]
        /\ writes' = writes \o FileLeft(w, run, DataFile(e.aim_id, stamp.save[1]),
                                        stamp.save[1])
  /\ IF w = "ok"
     THEN /\ k' = k + 1
          /\ pc' = IF k + 1 = Len(detailed_data) THEN "save_stats" ELSE "save_csv"
          /\ UNCHANGED abort_cause
     ELSE /\ pc' = "aborted"
          /\ abort_cause' = "write"
          /\ UNCHANGED k
  /\ UNCHANGED <<heatmap, run, now, coordinates_file, coordinates_list, idx, temperature_data,
                 stamp, stats, statistics_frame, requests, outcomes, calls>>
  /\ UNCHANGED nonPipeline

\* the second loop of save_temperature_data builds the rows, pd.DataFrame makes
\* one table of them, then the statistics CSV is written; nothing catches an
\* exception of to_csv
SaveStatistics(w) ==
  /\ pc = "save_stats"
  /\ LET rows == [i \in 1..Len(detailed_data) |->
                    StatsRow(detailed_data[i].df, detailed_data[i].aim_id, temperature_data)]
     IN /\ stats' = rows
        /\ statistics_frame' = Some(DataFrame(rows))
  /\ writes' = writes \o FileLeft(w, run, StatisticsFile(stamp.save[1]), stamp.save[1])
  /\ pc' = IF w = "ok" THEN "done" ELSE "aborted"
  /\ abort_cause' = IF w = "ok" THEN abort_cause ELSE "write"
  /\ UNCHANGED <<heatmap, run, now, coordinates_file, coordinates_list, idx, temperature_data,
                 detailed_data, k, stamp, requests, outcomes, calls>>
  /\ UNCHANGED nonPipeline

\* mutant: the failure of an output stage is caught and the execution goes on
OutputFailsCaught ==
  /\ pc \in WriteStages
  /\ pc' = CASE pc = "heatmap" -> "trend_start"
            [] pc = "trend" -> "save_json"
            [] pc = "save_json" -> "done"
            [] pc = "save_csv" -> "save_stats"
            [] OTHER -> "done"
  /\ abort_cause' = "write"
  /\ UNCHANGED <<heatmap, run, now, coordinates_file, coordinates_list, idx, temperature_data,
                 detailed_data, k, stamp, stats, statistics_frame, writes, requests, outcomes, calls>>
  /\ UNCHANGED nonPipeline

\* the write of an output stage raises (m.save, plt.savefig, open, json.dump,
\* to_csv): the stage has done everything up to the write, and the exception
\* ends the execution
OutputFails ==
  /\ pc \in WriteStages
  /\ temperature_data # << >>
  /\ ~HasNaN(temperature_data)
  /\ \E w \in {"no_file", "partial"} :
       \/ CreateHeatmap(w)
       \/ TrendPlot(w)
       \/ SaveSummary(w)
       \/ SaveCsv(w)
       \/ SaveStatistics(w)

\* the pipeline is executed again against the same files and directory
StartRun ==
  /\ pc \in {"done", "aborted"}
  /\ run < MaxRuns
  /\ run' = run + 1
  /\ pc' = "start"
  /\ coordinates_list' = << >>
  /\ idx' = 0
  /\ temperature_data' = << >>
  /\ detailed_data' = << >>
  /\ k' = 0
  /\ stamp' = NoStamp
  /\ stats' = << >>
  /\ statistics_frame' = Null
  /\ requests' = << >>
  /\ outcomes' = << >>
  /\ calls' = << >>
  /\ abort_cause' = "none"
  /\ heatmap' = Null
  /\ UNCHANGED <<now, coordinates_file, writes>>
  /\ UNCHANGED nonPipeline

Next ==
  \/ Tick
  \/ LoadConfig
  \/ LoadFails
  \/ Fetch
  \/ LoopExit
  \/ CreateHeatmap("ok")
  \/ CreateTrendPlots
  \/ TrendPlot("ok")
  \/ SaveSummary("ok")
  \/ SaveCsv("ok")
  \/ SaveStatistics("ok")
  \/ OutputFails
  \/ StartRun

Spec == Init /\ [][Next]_vars

\* ------------------------------------------------- the aggregation on a year
\* One location whose response is any series of at most MaxRecs daily records of
\* one year, dates ascending, every record being one of two days' measurements,
\* or a series of twelve records, one in each month, all of the same day's
\* measurements. In eighths: Day1 has the mean temperature 1.25, Day2 0.625.
Day1 == [tmax |-> Some(12), tmin |-> Some(1), tmean |-> Some(10), hum |-> Some(80), precip |-> Some(2)]
Day2 == [tmax |-> Some(20), tmin |-> Some(0 - 3), tmean |-> Some(5), hum |-> Some(61), precip |-> Null]
Days == {Day1, Day2}

RECURSIVE SortedSeq(_)
SortedSeq(S) ==
  IF S = {} THEN << >>
  ELSE LET m == CHOOSE x \in S : \A y \in S : x <= y
       IN <<m>> \o SortedSeq(S \ {m})

\* the `daily` object with one record on the 15th of each month of `months`
YearDaily(months, day) ==
  LET ms == SortedSeq(months)
  IN [time |-> [i \in 1..Len(ms) |-> <<2024, ms[i], 15>>],
      temperature_2m_max |-> [i \in 1..Len(ms) |-> day[ms[i]].tmax],
      temperature_2m_min |-> [i \in 1..Len(ms) |-> day[ms[i]].tmin],
      temperature_2m_mean |-> [i \in 1..Len(ms) |-> day[ms[i]].tmean],
      relative_humidity_2m_mean |-> [i \in 1..Len(ms) |-> day[ms[i]].hum],
      precipitation_sum |-> [i \in 1..Len(ms) |-> day[ms[i]].precip]]

MonthSets == {S \in SUBSET (1..12) : Cardinality(S) <= MaxRecs}

InitYear ==
  /\ Init
  /\ coordinates_file = <<Location(1)>>

FetchYear ==
  /\ pc = "fetch"
  /\ ~LoopDone(idx, coordinates_list)
  /\ \/ \E months \in MonthSets : \E day \in [months -> Days] :
          \E resp \in {DailyResponse(YearDaily(months, day))} : FetchResponse(resp)
     \/ \E d \in Days :
          \E resp \in {DailyResponse(YearDaily(1..12, [m \in 1..12 |-> d]))} :
            FetchResponse(resp)

NextYear ==
  \/ LoadConfig
  \/ FetchYear
  \/ LoopExit
  \/ CreateHeatmap("ok")
  \/ CreateTrendPlots
  \/ TrendPlot("ok")
  \/ SaveSummary("ok")
  \/ SaveCsv("ok")
  \/ SaveStatistics("ok")

SpecYear == InitYear /\ [][NextYear]_vars

\* ============================================================ cityHeatmap.py
\* ------------------------------------- get_historical_avg_temperature
\* The answer of the WorldWeatherOnline API to one request:
\*   kind    "connection_error"  requests.get raises a RequestException
\*           "http_error"        raise_for_status raises HTTPError
\*           "invalid_json"      response.json() raises a JSON decode error
\*           "json"              the body parses
\*   data    the shape of the parsed body
\*           "empty_object"      {}
\*           "no_data_key"       an object without the key 'data'
\*           "data_null"         {"data": null}
\*           "no_weather"        data['data'] is an object without the key 'weather'
\*           "weather"           data['data']['weather'] is the list `weather`
\*   weather the avgtempC field of each entry of the list
\* An avgtempC field is absent ("missing"), JSON null ("null") or a JSON string
\* ("str") with text s.
AvgMissing == [t |-> "missing", s |-> ""]
AvgNull == [t |-> "null", s |-> ""]
AvgStr(s) == [t |-> "str", s |-> s]

\* float(s) on the texts that are numerals; on any other text float raises ValueError
Numeral == ("12" :> 12) @@ ("15" :> 15) @@ ("-3" :> (0 - 3)) @@ ("1" :> 1)

\* float(day['avgtempC']): the value or the exception it raises
PyFloat(a) ==
  CASE a.t = "missing" -> [exc |-> "KeyError", v |-> 0]
    [] a.t = "null" -> [exc |-> "TypeError", v |-> 0]
    [] a.t = "str" -> IF a.s \in DOMAIN Numeral THEN [exc |-> "none", v |-> Numeral[a.s]]
                      ELSE [exc |-> "ValueError", v |-> 0]

ReturnsNone == [outcome |-> "none", value |-> << >>, exc |-> "none"]
ReturnsValue(v) == [outcome |-> "value", value |-> v, exc |-> "none"]
Raises(e) == [outcome |-> "raise", value |-> << >>, exc |-> e]

\* get_historical_avg_temperature on the answer to its request: the average as
\* a reduced fraction, None, or the exception that leaves the function
get_historical_avg_temperature(resp) ==
  IF resp.kind \in {"connection_error", "http_error"} THEN ReturnsNone  \* RequestException
  ELSE IF resp.kind = "invalid_json" THEN ReturnsNone                   \* a ValueError
  ELSE CASE resp.data = "empty_object" -> ReturnsNone                   \* `if data` is false
         [] resp.data = "no_data_key" -> ReturnsNone                    \* KeyError
         [] resp.data = "data_null" -> Raises("TypeError")              \* 'weather' in None
         [] resp.data = "no_weather" -> ReturnsNone
         [] resp.data = "weather" ->
              LET fl == [i \in 1..Len(resp.weather) |-> PyFloat(resp.weather[i])]
                  bad == {i \in 1..Len(fl) : fl[i].exc # "none"}
                  first == CHOOSE i \in bad : \A j \in bad : i <= j
              IN IF bad # {}
                 THEN IF fl[first].exc \in {"KeyError", "ValueError"} THEN ReturnsNone
                      ELSE Raises(fl[first].exc)
                 ELSE IF fl = << >> THEN ReturnsNone
                 ELSE ReturnsValue(Quotient(SumSeq([i \in 1..Len(fl) |-> fl[i].v]), Len(fl)))

Answer(kind, data, weather) == [kind |-> kind, data |-> data, weather |-> weather]

WwoResponses ==
  {Answer("connection_error", "", << >>),
   Answer("http_error", "", << >>),
   Answer("invalid_json", "", << >>),
   Answer("json", "empty_object", << >>),
   Answer("json", "no_data_key", << >>),
   Answer("json", "data_null", << >>),
   Answer("json", "no_weather", << >>),
   Answer("json", "weather", << >>),
   Answer("json", "weather", <<AvgStr("12")>>),
   Answer("json", "weather", <<AvgStr("12"), AvgStr("15")>>),
   Answer("json", "weather", <<AvgStr("-3"), AvgMissing>>),
   Answer("json", "weather", <<AvgStr("n/a")>>),
   Answer("json", "weather", <<AvgNull>>)}

\* ------------------------------------------------------------ create_heatmap
MaxNodes == 3
MaxLimit == 2
MaxYears == 2

\* a node of the street graph: y is its latitude, x its longitude
Node(i) == [y |-> 54 + i, x |-> 0 - i]

\* an item of api_keys; a key is its sequence of characters
Digit == <<"1", "2", "3", "4", "5">>
KeyOf(i) == <<"k", "e", "y", "-", "0", "0", "0", "0", "0", Digit[i]>>
ApiKeys(n) == [i \in 1..n |-> [year |-> 2026 - i, key |-> KeyOf(i)]]

\* key[-8:]
Last8(key) == SubSeq(key, IF Len(key) > 8 THEN Len(key) - 7 ELSE 1, Len(key))

\* the sequences of n distinct rows of nodes: what nodes.sample(n=n) can return
SampleOf(nodes, n) ==
  {[i \in 1..n |-> nodes[f[i]]] : f \in {g \in [1..n -> 1..Len(nodes)] :
                                            \A a, b \in 1..n : a # b => g[a] # g[b]}}

\* the files of create_heatmap; year is <<year>> or << >>
YearCsv(year) == [prefix |-> "newcastle_", year |-> <<year>>, suffix |-> "_avg_temperature_within_polygon_sampled.csv"]
YearJson(year) == [prefix |-> "heatmap_data_", year |-> <<year>>, suffix |-> ".json"]
YearMap(year) == [prefix |-> "newcastle_", year |-> <<year>>, suffix |-> "_avg_temperature_heatmap_within_polygon_sampled.html"]
AllYearsCsv == [prefix |-> "newcastle_all_years_avg_temperature_within_polygon_sampled.csv", year |-> << >>, suffix |-> ""]
AllYearsJson == [prefix |-> "heatmap_data_all_years.json", year |-> << >>, suffix |-> ""]
YearHtml(year) == [prefix |-> "heatmap_", year |-> <<year>>, suffix |-> ".html"]

\* df_historical[df_historical['year'] == year]
RECURSIVE RowsOfYear(_, _)
RowsOfYear(rows, year) ==
  IF rows = << >> THEN << >>
  ELSE (IF Head(rows).year = year THEN <<Head(rows)>> ELSE << >>) \o RowsOfYear(Tail(rows), year)

\* df[['latitude', 'longitude', 'avg_temperature', 'year']].to_dict(orient='records')
JsonRows(rows) ==
  [i \in 1..Len(rows) |-> [latitude |-> rows[i].latitude, longitude |-> rows[i].longitude,
                           avg_temperature |-> rows[i].avg_temperature, year |-> rows[i].year]]

InitCity ==
  /\ InitPipeline
  /\ coordinates_file = << >>
  /\ cpc = "start"
  /\ api_keys \in {ApiKeys(n) : n \in 1..MaxYears}
  /\ api_limit_per_key \in 0..MaxLimit
  /\ nodes_filtered \in {[i \in 1..n |-> Node(i)] : n \in 0..MaxNodes}
  /\ sampled_nodes = << >>
  /\ yi = 0
  /\ ni = 0
  /\ requests_made = 0
  /\ heat_data_historical = << >>
  /\ all_temp_data = << >>
  /\ issued = << >>
  /\ last_call = << >>
  /\ city_files = << >>
  /\ city_exc = "none"
  /\ IdleAerial
  /\ IdleImages
  /\ IdleTrees
  /\ IdleStreet
  /\ IdleWindow

\* the polygon is filtered and the nodes are sampled; without nodes the function returns
SampleNodes ==
  /\ cpc = "start"
  /\ IF Len(nodes_filtered) > 0
     THEN /\ IF Len(nodes_filtered) > api_limit_per_key
             THEN sampled_nodes' \in SampleOf(nodes_filtered, api_limit_per_key)
             ELSE sampled_nodes' = nodes_filtered
          /\ cpc' = "year"
     ELSE /\ cpc' = "returned"
          /\ UNCHANGED sampled_nodes
  /\ UNCHANGED <<api_keys, api_limit_per_key, nodes_filtered, yi, ni, requests_made,
                 heat_data_historical, all_temp_data, issued, last_call, city_files, city_exc>>
  /\ UNCHANGED nonCity

\* where the year loop goes after the item numbered y
AfterYear(y) == IF y = Len(api_keys) THEN "all_years" ELSE "year"

\* an iteration of `for year, key in api_keys.items()` begins
YearStart ==
  /\ cpc = "year"
  /\ yi < Len(api_keys)
  /\ heat_data_historical' = << >>
  /\ requests_made' = 0
  /\ ni' = 0
  /\ IF sampled_nodes # << >>
     THEN /\ cpc' = "nodes"
          /\ UNCHANGED yi
     ELSE /\ yi' = yi + 1
          /\ cpc' = AfterYear(yi + 1)
  /\ UNCHANGED <<api_keys, api_limit_per_key, nodes_filtered, sampled_nodes, all_temp_data,
                 issued, last_call, city_files, city_exc>>
  /\ UNCHANGED nonCity

\* mutant: a node whose request gave no value is requested again, uncounted
NodeRequestRetry(resp) ==
  /\ cpc = "nodes"
  /\ ni < Len(sampled_nodes)
  /\ requests_made < api_limit_per_key
  /\ \E node \in {sampled_nodes[ni + 1]} : \E item \in {api_keys[yi + 1]} :
     \E r \in {get_historical_avg_temperature(resp)} :
       /\ issued' = Append(issued, [year |-> item.year, node |-> node, outcome |-> r.outcome])
       /\ last_call' = [resp |-> resp, result |-> r]
       /\ IF r.outcome = "raise"
          THEN /\ cpc' = "aborted"
               /\ city_exc' = r.exc
               /\ UNCHANGED <<heat_data_historical, all_temp_data, requests_made, ni>>
          ELSE /\ IF r.outcome = "value"
                  THEN /\ heat_data_historical' =
                            Append(heat_data_historical, <<node.y, node.x, r.value>>)
                       /\ all_temp_data' =
                            Append(all_temp_data,
                                   [latitude |-> node.y, longitude |-> node.x,
                                    avg_temperature |-> r.value, year |-> item.year,
                                    api_key_used |-> Last8(item.key)])
                       /\ requests_made' = requests_made + 1
                       /\ ni' = ni + 1
                  ELSE UNCHANGED <<heat_data_historical, all_temp_data, requests_made, ni>>
               /\ UNCHANGED <<cpc, city_exc>>
  /\ UNCHANGED <<api_keys, api_limit_per_key, nodes_filtered, sampled_nodes, yi, city_files>>
  /\ UNCHANGED nonCity

\* an iteration of the node loop below the limit: one request, the remote answering resp
NodeRequest(resp) ==
  /\ cpc = "nodes"
  /\ ni < Len(sampled_nodes)
  /\ requests_made < api_limit_per_key
  /\ \E node \in {sampled_nodes[ni + 1]} : \E item \in {api_keys[yi + 1]} :
     \E r \in {get_historical_avg_temperature(resp)} :
       /\ issued' = Append(issued, [year |-> item.year, node |-> node, outcome |-> r.outcome])
       /\ last_call' = [resp |-> resp, result |-> r]
       /\ IF r.outcome = "raise"
          THEN /\ cpc' = "aborted"
               /\ city_exc' = r.exc
               /\ UNCHANGED <<heat_data_historical, all_temp_data, requests_made, ni>>
          ELSE /\ IF r.outcome = "value"
                  THEN /\ heat_data_historical' =
                            Append(heat_data_historical, <<node.y, node.x, r.value>>)
                       /\ all_temp_data' =
                            Append(all_temp_data,
                                   [latitude |-> node.y, longitude |-> node.x,
                                    avg_temperature |-> r.value, year |-> item.year,
                                    api_key_used |-> Last8(item.key)])
                  ELSE UNCHANGED <<heat_data_historical, all_temp_data>>
               /\ requests_made' = requests_made + 1
               /\ ni' = ni + 1
               /\ UNCHANGED <<cpc, city_exc>>
  /\ UNCHANGED <<api_keys, api_limit_per_key, nodes_filtered, sampled_nodes, yi, city_files>>
  /\ UNCHANGED nonCity

NodeFetch ==
  /\ cpc = "nodes"
  /\ ni < Len(sampled_nodes)
  /\ \E resp \in WwoResponses : NodeRequest(resp)

\* the node loop ends: its rows are exhausted, or the limit is reached and it breaks
NodesDone ==
  /\ cpc = "nodes"
  /\ \/ ni = Len(sampled_nodes)
     \/ ~(requests_made < api_limit_per_key)
  /\ cpc' = "year_output"
  /\ UNCHANGED <<api_keys, api_limit_per_key, nodes_filtered, sampled_nodes, yi, ni,
                 requests_made, heat_data_historical, all_temp_data, issued, last_call,
                 city_files, city_exc>>
  /\ UNCHANGED nonCity

CityFile(name, content) == [name |-> name, content |-> content]

\* the outputs of one year: CSV, JSON and, if a value was collected, the folium map;
\* selecting the column 'year' of a frame built from no rows raises KeyError
YearOutput ==
  /\ cpc = "year_output"
  /\ IF all_temp_data = << >>
     THEN /\ cpc' = "aborted"
          /\ city_exc' = "KeyError"
          /\ UNCHANGED <<city_files, yi>>
     ELSE /\ LET year == api_keys[yi + 1].year
                 rows == RowsOfYear(all_temp_data, year)
             IN city_files' =
                  city_files \o <<CityFile(YearCsv(year), rows),
                                  CityFile(YearJson(year), JsonRows(rows))>>
                  \o (IF heat_data_historical # << >>
                      THEN <<CityFile(YearMap(year), heat_data_historical)>> ELSE << >>)
          /\ yi' = yi + 1
          /\ cpc' = AfterYear(yi + 1)
          /\ UNCHANGED city_exc
  /\ UNCHANGED <<api_keys, api_limit_per_key, nodes_filtered, sampled_nodes, ni, requests_made,
                 heat_data_historical, all_temp_data, issued, last_call>>
  /\ UNCHANGED nonCity

\* the combined CSV and JSON; selecting the four columns of a frame built from
\* no rows raises KeyError after the CSV is written
AllYearsOutput ==
  /\ cpc = "all_years"
  /\ IF all_temp_data = << >>
     THEN /\ city_files' = Append(city_files, CityFile(AllYearsCsv, all_temp_data))
          /\ cpc' = "aborted"
          /\ city_exc' = "KeyError"
     ELSE /\ city_files' =
               city_files \o <<CityFile(AllYearsCsv, all_temp_data),
                               CityFile(AllYearsJson, JsonRows(all_temp_data))>>
          /\ cpc' = "html"
          /\ UNCHANGED city_exc
  /\ UNCHANGED <<api_keys, api_limit_per_key, nodes_filtered, sampled_nodes, yi, ni,
                 requests_made, heat_data_historical, all_temp_data, issued, last_call>>
  /\ UNCHANGED nonCity

\* one heatmap_<year>.html per item of api_keys
HtmlPages ==
  /\ cpc = "html"
  /\ city_files' = city_files \o [i \in 1..Len(api_keys) |->
                                    CityFile(YearHtml(api_keys[i].year), api_keys[i].year)]
  /\ cpc' = "done"
  /\ UNCHANGED <<api_keys, api_limit_per_key, nodes_filtered, sampled_nodes, yi, ni,
                 requests_made, heat_data_historical, all_temp_data, issued, last_call, city_exc>>
  /\ UNCHANGED nonCity

NextCity ==
  \/ SampleNodes
  \/ YearStart
  \/ NodeFetch
  \/ NodesDone
  \/ YearOutput
  \/ AllYearsOutput
  \/ HtmlPages

SpecCity == InitCity /\ [][NextCity]_vars

\* the requests issued for a year
IssuedFor(year) == {i \in 1..Len(issued) : issued[i].year = year}

\* ===================================================== coordinate_to_aerial.py
\* ------------------------------------------------ download_static_map_image
\* What the environment does to one download:
\*   get     "ok"                requests.get returns a response
\*           "connection_error"  requests.get raises ConnectionError: no response exists
\*           "timeout"           requests.get raises Timeout: no response exists
\*   status  "ok" or "error" (raise_for_status raises HTTPError)
\*   body    "ok", "broken" (iter_content raises ChunkedEncodingError) or "dead"
\*           (every read of the body raises it: iter_content, and response.text
\*           in the handler)
\*   open    "ok" or "FileNotFoundError" (the output directory does not exist)
DownloadEnv(get, status, body, open) == [get |-> get, status |-> status, body |-> body, open |-> open]

DownloadEnvs ==
  {DownloadEnv("ok", "ok", "ok", "ok"),
   DownloadEnv("connection_error", "ok", "ok", "ok"),
   DownloadEnv("timeout", "ok", "ok", "ok"),
   DownloadEnv("ok", "error", "ok", "ok"),
   DownloadEnv("ok", "error", "dead", "ok"),
   DownloadEnv("ok", "ok", "broken", "ok"),
   DownloadEnv("ok", "ok", "dead", "ok"),
   DownloadEnv("ok", "ok", "ok", "FileNotFoundError")}

\* the result of a call: what it returns or raises, and what it left in `filename`
DownloadResult(outcome, exc, file) == [outcome |-> outcome, exc |-> exc, file |-> file]

\* download_static_map_image: the handler of RequestException reads response.text
\* whatever raised; `response` is unbound when requests.get itself raised, and a
\* body that cannot be read raises out of the handler
download_static_map_image(env) ==
  IF env.get # "ok" THEN DownloadResult("raise", "UnboundLocalError", "none")
  ELSE IF env.status # "ok"
       THEN IF env.body = "dead" THEN DownloadResult("raise", "ChunkedEncodingError", "none")
            ELSE DownloadResult("False", "none", "none")
  ELSE IF env.open # "ok" THEN DownloadResult("raise", env.open, "none")
  ELSE IF env.body = "dead" THEN DownloadResult("raise", "ChunkedEncodingError", "partial")
  ELSE IF env.body # "ok" THEN DownloadResult("False", "none", "partial")
  ELSE DownloadResult("True", "none", "image")

\* ------------------------------------------------------------ the script
MaxEntries == 2

\* config.yaml as the script finds it
ConfigYaml(state, key, dir) == [state |-> state, api_key |-> key, satellite_output_directory |-> dir]

ConfigYamls ==
  {ConfigYaml("missing", Null, Null),
   ConfigYaml("unparseable", Null, Null),
   ConfigYaml("empty", Null, Null),
   ConfigYaml("loaded", Null, Some("aerial")),
   ConfigYaml("loaded", Some("key"), Null),
   ConfigYaml("loaded", Some("key"), Some("aerial"))}

\* the keys of coordinates.yaml, as sequences of characters
Aims == {<<"A", "i", "m", " ", "1">>, <<"A", "i", "m", " ", "2">>, <<"A", "i", "m", ":", "1">>}

\* str.replace(old, new) on a sequence of characters; new is a sequence
RECURSIVE StrReplace(_, _, _)
StrReplace(s, old, new) ==
  IF s = << >> THEN << >>
  ELSE (IF Head(s) = old THEN new ELSE <<Head(s)>>) \o StrReplace(Tail(s), old, new)

\* os.path.join(output_dir, f"{aim.replace(' ', '_').replace(':', '')}.jpg")
AerialFilename(dir, aim) ==
  [dir |-> dir, name |-> StrReplace(StrReplace(aim, " ", <<"_">>), ":", << >>), ext |-> ".jpg"]

\* f"{latitude},{longitude}"
LocationString(latitude, longitude) == <<latitude, ",", longitude>>

\* an item of coordinates.yaml: the key and the latitude and longitude of its details
AerialEntries ==
  {[aim |-> a, latitude |-> lat, longitude |-> lng] :
     a \in Aims, lat \in {Null, Some(0), Some(55)}, lng \in {Null, Some(0 - 1)}}

\* coordinates.yaml as the script finds it; the keys of a mapping are distinct
CoordinatesYamls ==
  {[state |-> "missing", entries |-> << >>], [state |-> "unparseable", entries |-> << >>]}
  \cup {[state |-> "loaded", entries |-> l] :
          l \in {m \in UNION {[1..n -> AerialEntries] : n \in 0..MaxEntries} :
                   \A i, j \in 1..Len(m) : i # j => m[i].aim # m[j].aim}}

\* `not x` on the value of details.get(...): None and 0 are false
Falsy(x) == x = Null \/ x = Some(0)

InitAerial ==
  /\ InitPipeline
  /\ coordinates_file = << >>
  /\ IdleCity
  /\ apc = "config"
  /\ config_yaml \in ConfigYamls
  /\ coordinates_yaml \in CoordinatesYamls
  /\ api_key = Null
  /\ output_dir = Null
  /\ coordinates_opened = FALSE
  /\ ei = 0
  /\ downloads = << >>
  /\ aerial_files = << >>
  /\ aerial_exit = "none"
  /\ IdleImages
  /\ IdleTrees
  /\ IdleStreet
  /\ IdleWindow

\* the first try block: config.yaml is loaded and its two keys are read
AerialConfig ==
  /\ apc = "config"
  /\ CASE config_yaml.state = "missing" ->        \* except FileNotFoundError: sys.exit(1)
            /\ apc' = "exited"
            /\ aerial_exit' = "exit 1"
            /\ UNCHANGED <<api_key, output_dir>>
       [] config_yaml.state = "unparseable" ->    \* except yaml.YAMLError: print only
            /\ apc' = "coordinates"
            /\ UNCHANGED <<api_key, output_dir, aerial_exit>>
       [] config_yaml.state = "empty" ->          \* None.get raises AttributeError
            /\ apc' = "crashed"
            /\ aerial_exit' = "AttributeError"
            /\ UNCHANGED <<api_key, output_dir>>
       [] config_yaml.state = "loaded" ->
            /\ api_key' = config_yaml.api_key
            /\ output_dir' = config_yaml.satellite_output_directory
            /\ IF config_yaml.api_key = Null \/ config_yaml.satellite_output_directory = Null
               THEN /\ apc' = "exited"            \* except ValueError: sys.exit(1)
                    /\ aerial_exit' = "exit 1"
               ELSE /\ apc' = "coordinates"
                    /\ UNCHANGED aerial_exit
  /\ UNCHANGED <<config_yaml, coordinates_yaml, coordinates_opened, ei, downloads, aerial_files>>
  /\ UNCHANGED nonAerial

\* the second try block opens and loads coordinates.yaml
AerialCoordinates ==
  /\ apc = "coordinates"
  /\ coordinates_opened' = (coordinates_yaml.state # "missing")
  /\ ei' = 0
  /\ IF coordinates_yaml.state = "loaded" /\ coordinates_yaml.entries # << >>
     THEN /\ apc' = "entries"
          /\ UNCHANGED aerial_exit
     ELSE /\ apc' = "exited"                      \* each handler ends with sys.exit(1)
          /\ aerial_exit' = "exit 1"
  /\ UNCHANGED <<config_yaml, coordinates_yaml, api_key, output_dir, downloads, aerial_files>>
  /\ UNCHANGED nonAerial

\* an entry without latitude or longitude is skipped
AerialSkip ==
  /\ apc = "entries"
  /\ ei < Len(coordinates_yaml.entries)
  /\ LET e == coordinates_yaml.entries[ei + 1]
     IN Falsy(e.latitude) \/ Falsy(e.longitude)
  /\ ei' = ei + 1
  /\ UNCHANGED <<apc, config_yaml, coordinates_yaml, api_key, output_dir, coordinates_opened,
                 downloads, aerial_files, aerial_exit>>
  /\ UNCHANGED nonAerial

\* an entry with both: the name is built from output_dir and the image is downloaded
AerialDownload(env) ==
  /\ apc = "entries"
  /\ ei < Len(coordinates_yaml.entries)
  /\ \E e \in {coordinates_yaml.entries[ei + 1]} :
       /\ ~(Falsy(e.latitude) \/ Falsy(e.longitude))
       /\ IF output_dir = Null
          THEN \* output_dir was never assigned: NameError, which no handler catches
               /\ apc' = "crashed"
               /\ aerial_exit' = "NameError"
               /\ UNCHANGED <<ei, downloads, aerial_files>>
          ELSE \E r \in {download_static_map_image(env)} :
               \E f \in {AerialFilename(output_dir[1], e.aim)} :
                 /\ downloads' = Append(downloads,
                                        [aim |-> e.aim,
                                         location |-> LocationString(e.latitude[1], e.longitude[1]),
                                         filename |-> f, env |-> env, result |-> r])
                 /\ aerial_files' = IF r.file = "none" THEN aerial_files
                                    ELSE Append(aerial_files, [name |-> f, content |-> r.file])
                 /\ IF r.outcome = "raise"
                    THEN IF r.exc = "FileNotFoundError"
                         THEN /\ apc' = "exited"  \* except FileNotFoundError: sys.exit(1)
                              /\ aerial_exit' = "exit 1"
                              /\ UNCHANGED ei
                         ELSE /\ apc' = "crashed"
                              /\ aerial_exit' = r.exc
                              /\ UNCHANGED ei
                    ELSE /\ ei' = ei + 1
                         /\ UNCHANGED <<apc, aerial_exit>>
  /\ UNCHANGED <<config_yaml, coordinates_yaml, api_key, output_dir, coordinates_opened>>
  /\ UNCHANGED nonAerial

AerialEntry ==
  /\ apc = "entries"
  /\ ei < Len(coordinates_yaml.entries)
  /\ \E env \in DownloadEnvs : AerialDownload(env)

\* the loop over the entries is exhausted and the script ends
AerialDone ==
  /\ apc = "entries"
  /\ ei = Len(coordinates_yaml.entries)
  /\ apc' = "done"
  /\ UNCHANGED <<config_yaml, coordinates_yaml, api_key, output_dir, coordinates_opened, ei,
                 downloads, aerial_files, aerial_exit>>
  /\ UNCHANGED nonAerial

NextAerial ==
  \/ AerialConfig
  \/ AerialCoordinates
  \/ AerialSkip
  \/ AerialEntry
  \/ AerialDone

SpecAerial == InitAerial /\ [][NextAerial]_vars

\* ===================================================== coordinate_to_images.py
\* ------------------------------------------------ get_coordinates_from_yaml
\* A value under 'Aim 1': absent, YAML null, a number, a quoted text or a list.
YAbsent == [t |-> "absent", n |-> 0, s |-> ""]
YNull == [t |-> "null", n |-> 0, s |-> ""]
YNum(n) == [t |-> "num", n |-> n, s |-> ""]
YStr(s) == [t |-> "str", n |-> 0, s |-> s]
YList == [t |-> "list", n |-> 0, s |-> ""]

YValues == {YAbsent, YNull, YNum(0), YNum(55), YStr("12"), YStr("north"), YList}

\* coordinates.yaml as the function finds it:
\*   state  "missing", "unparseable" or "loaded"
\*   top    the loaded document: "none" (empty file), "text" (a text in which
\*          'Aim 1' does not occur), "text_aim" (a text in which it occurs),
\*          "no_aim" (a mapping without 'Aim 1'), "aim_null" ('Aim 1' maps to
\*          null), "aim_text" ('Aim 1' maps to a text) or "aim" ('Aim 1' maps to
\*          a mapping with the two values latitude and longitude)
YamlFile(state, top, lat, lng) == [state |-> state, top |-> top, latitude |-> lat, longitude |-> lng]

YamlFiles ==
  {YamlFile("missing", "none", YAbsent, YAbsent),
   YamlFile("unparseable", "none", YAbsent, YAbsent),
   YamlFile("loaded", "none", YAbsent, YAbsent),
   YamlFile("loaded", "text", YAbsent, YAbsent),
   YamlFile("loaded", "text_aim", YAbsent, YAbsent),
   YamlFile("loaded", "no_aim", YAbsent, YAbsent),
   YamlFile("loaded", "aim_null", YAbsent, YAbsent),
   YamlFile("loaded", "aim_text", YAbsent, YAbsent)}
  \cup {YamlFile("loaded", "aim", lat, lng) : lat \in YValues, lng \in YValues}

\* dict.get(key): None for an absent key and for a null value
DictGet(y) == IF y.t \in {"absent", "null"} THEN [t |-> "none", n |-> 0, s |-> ""] ELSE y

\* `float(x) if x is not None else None`: the option it yields or the exception
FloatOrNone(x) ==
  CASE x.t = "none" -> [exc |-> "none", v |-> Null]
    [] x.t = "num" -> [exc |-> "none", v |-> Some(x.n)]
    [] x.t = "str" -> IF x.s \in DOMAIN Numeral THEN [exc |-> "none", v |-> Some(Numeral[x.s])]
                      ELSE [exc |-> "ValueError", v |-> Null]
    [] x.t = "list" -> [exc |-> "TypeError", v |-> Null]

Returned(lat, lng) == [outcome |-> "return", latitude |-> lat, longitude |-> lng, exc |-> "none"]

\* coordinate_to_images.get_coordinates_from_yaml
images_get_coordinates_from_yaml(file) ==
  IF file.state # "loaded" THEN Returned(Null, Null)
  ELSE IF file.top \in {"none", "text", "no_aim"} THEN Returned(Null, Null)
  ELSE IF file.top = "text_aim"
       THEN \* coordinates_data["Aim 1"] on a str
            [outcome |-> "raise", latitude |-> Null, longitude |-> Null, exc |-> "TypeError"]
  ELSE IF file.top \in {"aim_null", "aim_text"}
       THEN \* aim_1_data.get on None or on a str
            [outcome |-> "raise", latitude |-> Null, longitude |-> Null, exc |-> "AttributeError"]
  ELSE LET lat == FloatOrNone(DictGet(file.latitude))
           lng == FloatOrNone(DictGet(file.longitude))
       IN IF lat.exc # "none" THEN Returned(Null, Null)
          ELSE IF lng.exc # "none" THEN Returned(Null, Null)
          ELSE Returned(lat.v, lng.v)

\* ------------------------------------------------------------ the script
FOV == 60
Headings == 6

\* config.yaml as the script finds it
ImagesConfigs ==
  {[state |-> "missing", api_key |-> Null], [state |-> "unparseable", api_key |-> Null],
   [state |-> "empty", api_key |-> Null], [state |-> "loaded", api_key |-> Null],
   [state |-> "loaded", api_key |-> Some("key")]}

\* what the user types at the prompts: "no", or "yes" and two numbers
Typed == {[answer |-> "no", lat |-> 0, lng |-> 0], [answer |-> "yes", lat |-> 0, lng |-> 7],
          [answer |-> "y", lat |-> 51, lng |-> 7]}

\* os.path.join("data", f"coordinate_{LOCATION}_images")
ImagesOutputDir(lat, lng) == [prefix |-> "coordinate_", location |-> <<lat, ",", lng>>, suffix |-> "_images"]

\* what happens to one street-view download
StreetViewEnvs == {"ok", "request_error", "image_error"}

\* get_street_view_image: the path of the saved image, or None
get_street_view_image(env, dir, filename) ==
  IF env = "ok" THEN Some([dir |-> dir, name |-> filename]) ELSE Null

\* f"street_view_{i}.jpg"
StreetViewName(i) == <<"street_view_", i, ".jpg">>

InitImages ==
  /\ InitPipeline
  /\ coordinates_file = << >>
  /\ IdleCity
  /\ IdleAerial
  /\ ipc = "config"
  /\ images_config \in ImagesConfigs
  /\ images_yaml \in YamlFiles
  /\ images_api_key = Null
  /\ coords_result = << >>
  /\ img_lat = Null
  /\ img_lng = Null
  /\ hi = 0
  /\ image_paths = << >>
  /\ headings = << >>
  /\ images_exit = "none"
  /\ IdleTrees
  /\ IdleStreet
  /\ IdleWindow

\* the API key is loaded; only FileNotFoundError is handled
ImagesConfig ==
  /\ ipc = "config"
  /\ CASE images_config.state = "unparseable" ->
            /\ ipc' = "crashed"
            /\ images_exit' = "YAMLError"
            /\ UNCHANGED images_api_key
       [] images_config.state = "empty" ->
            /\ ipc' = "crashed"
            /\ images_exit' = "AttributeError"
            /\ UNCHANGED images_api_key
       [] images_config.state \in {"missing", "loaded"} ->
            /\ images_api_key' = images_config.api_key
            /\ IF images_config.api_key = Null
               THEN /\ ipc' = "exited"
                    /\ images_exit' = "exit"
               ELSE /\ ipc' = "coordinates"
                    /\ UNCHANGED images_exit
  /\ UNCHANGED <<images_config, images_yaml, coords_result, img_lat, img_lng, hi, image_paths, headings>>
  /\ UNCHANGED nonImages

\* lat, lng = get_coordinates_from_yaml(...); the script exits if one is false
ImagesCoordinates ==
  /\ ipc = "coordinates"
  /\ \E r \in {images_get_coordinates_from_yaml(images_yaml)} :
       /\ coords_result' = r
       /\ IF r.outcome = "raise"
          THEN /\ ipc' = "crashed"
               /\ images_exit' = r.exc
               /\ UNCHANGED <<img_lat, img_lng>>
          ELSE /\ img_lat' = r.latitude
               /\ img_lng' = r.longitude
               /\ IF Falsy(r.latitude) \/ Falsy(r.longitude)
                  THEN /\ ipc' = "exited"
                       /\ images_exit' = "exit"
                  ELSE /\ ipc' = "prompt"
                       /\ UNCHANGED images_exit
  /\ UNCHANGED <<images_config, images_yaml, images_api_key, hi, image_paths, headings>>
  /\ UNCHANGED nonImages

\* the user keeps the loaded coordinates or types others
ImagesPrompt ==
  /\ ipc = "prompt"
  /\ \E u \in Typed :
       IF u.answer \in {"yes", "y"}
       THEN img_lat' = Some(u.lat) /\ img_lng' = Some(u.lng)
       ELSE UNCHANGED <<img_lat, img_lng>>
  /\ hi' = 0
  /\ image_paths' = << >>
  /\ ipc' = "headings"
  /\ UNCHANGED <<images_config, images_yaml, images_api_key, coords_result, headings, images_exit>>
  /\ UNCHANGED nonImages

\* one iteration of `for i in range(6)`
ImagesHeading ==
  /\ ipc = "headings"
  /\ hi < Headings
  /\ \E env \in StreetViewEnvs :
       image_paths' = Append(image_paths,
                             get_street_view_image(env, ImagesOutputDir(img_lat[1], img_lng[1]),
                                                   StreetViewName(hi)))
  /\ headings' = Append(headings, hi * FOV)
  /\ hi' = hi + 1
  /\ ipc' = IF hi + 1 = Headings THEN "done" ELSE "headings"
  /\ UNCHANGED <<images_config, images_yaml, images_api_key, coords_result, img_lat, img_lng, images_exit>>
  /\ UNCHANGED nonImages

NextImages ==
  \/ ImagesConfig
  \/ ImagesCoordinates
  \/ ImagesPrompt
  \/ ImagesHeading

SpecImages == InitImages /\ [][NextImages]_vars

\* ================================================== a YAML text cut short
\* A write that raises after open() has created the file leaves a prefix of the
\* text. The nonempty prefixes of the keys and plain scalars of the texts, by
\* length:
Prefixes ==
  ("Aim 1" :>
     <<"A", "Ai", "Aim", "Aim ", "Aim 1">>) @@
  ("address" :>
     <<"a", "ad", "add", "addr", "addre", "addres", "address">>) @@
  ("latitude" :>
     <<"l", "la", "lat", "lati", "latit", "latitu", "latitud", "latitude">>) @@
  ("longitude" :>
     <<"l", "lo", "lon", "long", "longi", "longit", "longitu", "longitud", "longitude">>) @@
  ("Ouseburn Road,Newcastle upon Tyne,UK" :>
     <<"O", "Ou", "Ous", "Ouse", "Ouseb", "Ousebu", "Ousebur", "Ouseburn", "Ouseburn ",
       "Ouseburn R", "Ouseburn Ro", "Ouseburn Roa", "Ouseburn Road", "Ouseburn Road,",
       "Ouseburn Road,N", "Ouseburn Road,Ne", "Ouseburn Road,New", "Ouseburn Road,Newc",
       "Ouseburn Road,Newca", "Ouseburn Road,Newcas", "Ouseburn Road,Newcast",
       "Ouseburn Road,Newcastl", "Ouseburn Road,Newcastle", "Ouseburn Road,Newcastle ",
       "Ouseburn Road,Newcastle u", "Ouseburn Road,Newcastle up",
       "Ouseburn Road,Newcastle upo", "Ouseburn Road,Newcastle upon",
       "Ouseburn Road,Newcastle upon ", "Ouseburn Road,Newcastle upon T",
       "Ouseburn Road,Newcastle upon Ty", "Ouseburn Road,Newcastle upon Tyn",
       "Ouseburn Road,Newcastle upon Tyne", "Ouseburn Road,Newcastle upon Tyne,",
       "Ouseburn Road,Newcastle upon Tyne,U", "Ouseburn Road,Newcastle upon Tyne,UK">>) @@
  ("12" :>
     <<"1", "12">>) @@
  ("15" :>
     <<"1", "15">>) @@
  ("-3" :>
     <<"-", "-3">>) @@
  ("null" :>
     <<"n", "nu", "nul", "null">>) @@
  ("class_name" :>
     <<"c", "cl", "cla", "clas", "class", "class_", "class_n", "class_na", "class_nam",
       "class_name">>) @@
  ("tree" :>
     <<"t", "tr", "tre", "tree">>)

\* the prefixes that end in a space, and what they are without it
TrailingSpace ==
  ("Aim " :> "Aim") @@
  ("Ouseburn " :> "Ouseburn") @@
  ("Ouseburn Road,Newcastle " :> "Ouseburn Road,Newcastle") @@
  ("Ouseburn Road,Newcastle upon " :> "Ouseburn Road,Newcastle upon")

\* a plain scalar ends at its last character that is not a space
Stripped(p) == IF p \in DOMAIN TrailingSpace THEN TrailingSpace[p] ELSE p

\* Where a text ends: `line` lines are there in full, and of the next line
\*   "start"  nothing, or only its indentation
\*   "dash"   the "-" that opens an item of a sequence
\*   "key"    the first `chars` characters of the key, no colon
\*   "colon"  the key and its colon
\*   "value"  the key, the colon and the first `chars` characters of the value
Cut(line, part, chars) == [line |-> line, part |-> part, chars |-> chars]

\* what yaml.safe_load makes of a file: None, a YAMLError, a text, or a
\* collection with its items
Document(kind, text, items) == [kind |-> kind, s |-> text, items |-> items]

\* ============================================ tree_detection.py, count_trees.py
\* ------------------------------------------- run_tree_detection_yolo_class
MaxBoxes == 2
MaxFiles == 2

\* model.names: class_id -> class name, class ids counted from 0
Names == <<"tree", "car">>
ClassName(class_id) == Names[class_id + 1]

\* a detected box: xyxy in tenths of a pixel, conf in hundredths, cls the class id
Box(xyxy, conf, cls) == [xyxy |-> xyxy, conf |-> conf, cls |-> cls]

Boxes ==
  {Box(<<105, 207, 309, 401>>, 87, 0),
   Box(<<15, 25, 35, 45>>, 60, 1),
   Box(<<0 - 5, 0, 99, 120>>, 31, 0)}

BoxLists == UNION {[1..n -> Boxes] : n \in 0..MaxBoxes}

\* What the environment does to one call:
\*   load     "ok" or "error": YOLO(model_path) raises
\*   predict  "ok" or "error": model.predict raises
\*   truthy   the truth value of `results`; a result with boxes is true
\*   boxes    results.boxes, in detection order
\*   open     "ok" or "error": Image.open(image_path) raises
\*   save     "ok" or "error": os.makedirs or detected_image.save raises
\*   dump     "ok"; "error": open(yaml_filepath, "w") raises and no file is
\*            created; "write_error": the file is created and yaml.dump raises
\*   cut      under "write_error", where the text in the file ends
DetectEnv(load, predict, truthy, boxes, open, save, dump, cut) ==
  [load |-> load, predict |-> predict, truthy |-> truthy, boxes |-> boxes, open |-> open,
   save |-> save, dump |-> dump, cut |-> cut]

NoCut == Cut(0, "start", 0)

OneTree == <<Box(<<105, 207, 309, 401>>, 87, 0)>>
TwoTrees == <<Box(<<105, 207, 309, 401>>, 87, 0), Box(<<0 - 5, 0, 99, 120>>, 31, 0)>>

\* the places where the text of one tree is cut: in the empty file, after the
\* dash, in the first key, after its colon, in and after its value, in the
\* second key, in a number, and after the last line
TreeCuts ==
  {Cut(0, "start", 0), Cut(0, "dash", 0), Cut(0, "key", 5), Cut(0, "colon", 0),
   Cut(0, "value", 2), Cut(1, "start", 0), Cut(1, "key", 4), Cut(2, "value", 1),
   Cut(6, "start", 0)}

\* the places where the text of two trees is cut in the second: before it,
\* after its dash, after the colon of its xh, and in its last number
SecondTreeCuts ==
  {Cut(6, "start", 0), Cut(6, "dash", 0), Cut(8, "colon", 0), Cut(11, "value", 1)}

DetectEnvs ==
  {DetectEnv("ok", "ok", TRUE, b, "ok", "ok", "ok", NoCut) : b \in BoxLists}
  \cup {DetectEnv("ok", "ok", FALSE, << >>, "ok", "ok", "ok", NoCut),
        DetectEnv("error", "ok", TRUE, OneTree, "ok", "ok", "ok", NoCut),
        DetectEnv("ok", "error", TRUE, OneTree, "ok", "ok", "ok", NoCut),
        DetectEnv("ok", "ok", TRUE, OneTree, "error", "ok", "ok", NoCut),
        DetectEnv("ok", "ok", TRUE, OneTree, "ok", "error", "ok", NoCut),
        DetectEnv("ok", "ok", TRUE, OneTree, "ok", "ok", "error", NoCut)}
  \cup {DetectEnv("ok", "ok", TRUE, OneTree, "ok", "ok", "write_error", c) : c \in TreeCuts}
  \cup {DetectEnv("ok", "ok", TRUE, TwoTrees, "ok", "ok", "write_error", c) :
          c \in SecondTreeCuts}

\* int(x) of a float given in tenths: the fraction is cut off toward zero
PyInt(x) == IF x >= 0 THEN x \div 10 ELSE 0 - ((0 - x) \div 10)

\* x1, y1, x2, y2 = map(int, xyxy[i])
IntBox(box) == [i \in 1..4 |-> PyInt(box.xyxy[i])]

\* mutant: every detected box is taken for a tree
IsTreeAnyClass(class_name) == TRUE

\* `if class_name == 'tree':`
IsTree(class_name) == class_name = "tree"

\* tree_detections_data after the loop over the boxes
RECURSIVE TreeDetectionsData(_)
TreeDetectionsData(boxes) ==
  IF boxes = << >> THEN << >>
  ELSE LET b == Head(boxes)
           c == IntBox(b)
       IN (IF IsTree(ClassName(b.cls))
           THEN <<[class_name |-> ClassName(b.cls), confidence |-> b.conf,
                   xh |-> c[1], yh |-> c[2], xw |-> c[3], yw |-> c[4]]>>
           ELSE << >>) \o TreeDetectionsData(Tail(boxes))

\* tree_detected_count after the loop over the boxes
RECURSIVE TreeDetectedCount(_)
TreeDetectedCount(boxes) ==
  IF boxes = << >> THEN 0
  ELSE (IF IsTree(ClassName(Head(boxes).cls)) THEN 1 ELSE 0) + TreeDetectedCount(Tail(boxes))

\* the rectangles drawn on detected_image
RECURSIVE Rectangles(_)
Rectangles(boxes) ==
  IF boxes = << >> THEN << >>
  ELSE (IF IsTree(ClassName(Head(boxes).cls)) THEN <<IntBox(Head(boxes))>> ELSE << >>)
       \o Rectangles(Tail(boxes))

\* a file of the input folder: os.path.splitext(filename)
FileName(stem, ext) == [stem |-> stem, ext |-> ext]

\* os.path.splitext(os.path.basename(image_path))[0] + "_tree_detections.yaml"
YamlFilename(image) == [stem |-> image.stem, suffix |-> "_tree_detections.yaml"]

\* --------------------------------------------------- the detections YAML
\* yaml.dump(tree_detections_data, indent=2) writes one item per tree, its keys
\* sorted: "- class_name: ..", "  confidence: ..", "  xh: ..", "  xw: ..",
\* "  yh: ..", "  yw: ..": six lines
LinesPerTree == 6

\* the number of digits of m >= 0
RECURSIVE Digits(_)
Digits(m) == IF m < 10 THEN 1 ELSE 1 + Digits(m \div 10)

RECURSIVE Pow10(_)
Pow10(e) == IF e = 0 THEN 1 ELSE 10 * Pow10(e - 1)

\* the number of characters of str(n)
IntLen(n) == IF n >= 0 THEN Digits(n) ELSE 1 + Digits(0 - n)

\* the integer that the first chars characters of str(n) spell; "-" alone is none
IntPrefix(n, chars) ==
  IF n >= 0 THEN n \div Pow10(Digits(n) - chars)
  ELSE 0 - ((0 - n) \div Pow10(Digits(0 - n) - (chars - 1)))

\* the confidence, in hundredths, that the first chars characters of its text
\* spell: "0", "0.", "0.8", "0.87" and on
ConfidencePrefix(h, chars) ==
  IF h >= 100 \/ chars >= 4 THEN h
  ELSE IF chars = 3 THEN 10 * (h \div 10)
  ELSE 0

\* an item of the loaded list: null, a text, or a mapping whose absent keys
\* are YAbsent
Item(t, text, values) ==
  [t |-> t, s |-> text, class_name |-> values[1], confidence |-> values[2], xh |-> values[3],
   xw |-> values[4], yh |-> values[5], yw |-> values[6]]

\* the mapping loaded for a tree of which the first n lines are in the text,
\* the next key having the value `next` (YAbsent: the key is not there)
LoadedTree(d, n, next) ==
  LET vals == <<YStr(d.class_name), YNum(d.confidence), YNum(d.xh), YNum(d.xw), YNum(d.yh),
                YNum(d.yw)>>
  IN Item("map", "",
          [f \in 1..LinesPerTree |->
             IF f <= n THEN vals[f] ELSE IF f = n + 1 THEN next ELSE YAbsent])

\* the value that the first chars characters of line f of the tree d spell
TreeValuePrefix(d, f, chars) ==
  CASE f = 1 -> YStr(Stripped(Prefixes[d.class_name][chars]))
    [] f = 2 -> YNum(ConfidencePrefix(d.confidence, chars))
    [] f = 3 -> YNum(IntPrefix(d.xh, chars))
    [] f = 4 -> YNum(IntPrefix(d.xw, chars))
    [] f = 5 -> YNum(IntPrefix(d.yh, chars))
    [] f = 6 -> YNum(IntPrefix(d.yw, chars))

\* a "-" alone, where a value is expected, is not a scalar: the scanner raises
LoneMinus(d, f, chars) ==
  /\ chars = 1
  /\ f >= 3
  /\ <<d.xh, d.xw, d.yh, d.yw>>[f - 2] < 0

\* yaml.safe_load of the detections YAML whose text, the dump of data, ends at cut
LoadDetections(data, cut) ==
  LET done == cut.line \div LinesPerTree
      f == (cut.line % LinesPerTree) + 1
      whole == [i \in 1..done |-> LoadedTree(data[i], LinesPerTree, YAbsent)]
  IN CASE cut.part = "start" ->
            IF cut.line = 0 THEN Document("none", "", << >>)
            ELSE Document("list", "",
                          whole \o (IF f = 1 THEN << >>
                                    ELSE <<LoadedTree(data[done + 1], f - 1, YAbsent)>>))
       [] cut.part = "dash" -> Document("list", "", Append(whole, Item("null", "", [i \in 1..6 |-> YAbsent])))
       [] cut.part = "key" ->
            \* after the dash a lone word is a text; inside a mapping a key
            \* without its colon is a ScannerError
            IF f = 1
            THEN Document("list", "",
                          Append(whole, Item("str", Prefixes["class_name"][cut.chars],
                                             [i \in 1..6 |-> YAbsent])))
            ELSE Document("error", "", << >>)
       [] cut.part = "colon" ->
            Document("list", "", Append(whole, LoadedTree(data[done + 1], f - 1, YNull)))
       [] cut.part = "value" ->
            IF LoneMinus(data[done + 1], f, cut.chars) THEN Document("error", "", << >>)
            ELSE Document("list", "",
                          Append(whole, LoadedTree(data[done + 1], f - 1,
                                                   TreeValuePrefix(data[done + 1], f, cut.chars))))

\* the cut of a text that is there in full
WholeText(data) == Cut(LinesPerTree * Len(data), "start", 0)

\* what a call did: the error its handler printed, tree_detected_count if it was
\* assigned, the image saved and the YAML file left on disk: its name, the list
\* that was dumped and where the text in the file ends
TreeResult(error, count, image, yaml) ==
  [error |-> error, count |-> count, image |-> image, yaml |-> yaml]

\* tree_detection.run_tree_detection_yolo_class
run_tree_detection_yolo_class(env, image) ==
  IF env.load # "ok" THEN TreeResult("load", Null, Null, Null)
  ELSE IF env.predict # "ok" THEN TreeResult("predict", Null, Null, Null)
  ELSE IF ~env.truthy THEN TreeResult("none", Null, Null, Null)
  ELSE IF env.open # "ok" THEN TreeResult("open", Null, Null, Null)
  ELSE LET data == TreeDetectionsData(env.boxes)
           count == TreeDetectedCount(env.boxes)
           saved == [name |-> image, rectangles |-> Rectangles(env.boxes)]
       IN IF env.save # "ok" THEN TreeResult("save", Some(count), Null, Null)
          ELSE IF data = << >> THEN TreeResult("none", Some(count), Some(saved), Null)
          ELSE IF env.dump = "error" THEN TreeResult("dump", Some(count), Some(saved), Null)
          ELSE IF env.dump = "write_error"
          THEN \* open() has created the file, yaml.dump raises: the file stays
               \* with the text that had reached it
               TreeResult("dump", Some(count), Some(saved),
                          Some([name |-> YamlFilename(image), tree_detections |-> data,
                                cut |-> env.cut]))
          ELSE TreeResult("none", Some(count), Some(saved),
                          Some([name |-> YamlFilename(image), tree_detections |-> data,
                                cut |-> WholeText(data)]))

\* count_trees.run_tree_detection_yolo_class: the same without the YAML file
count_trees_run_tree_detection_yolo_class(env, image) ==
  IF env.load # "ok" THEN TreeResult("load", Null, Null, Null)
  ELSE IF env.predict # "ok" THEN TreeResult("predict", Null, Null, Null)
  ELSE IF ~env.truthy THEN TreeResult("none", Null, Null, Null)
  ELSE IF env.open # "ok" THEN TreeResult("open", Null, Null, Null)
  ELSE LET count == TreeDetectedCount(env.boxes)
           saved == [name |-> image, rectangles |-> Rectangles(env.boxes)]
       IN IF env.save # "ok" THEN TreeResult("save", Some(count), Null, Null)
          ELSE TreeResult("none", Some(count), Some(saved), Null)

\* `detection['xh'], detection['yh'], detection['xw'], detection['yw']`:
\* subscripting an entry that is no mapping (None, a text) raises TypeError, a
\* key that the mapping lacks raises KeyError
SubscriptError(detection) ==
  IF detection.t # "map" THEN "TypeError"
  ELSE IF \E f \in {"xh", "yh", "xw", "yw"} : detection[f].t = "absent" THEN "KeyError"
  ELSE "none"

\* np.array([xh, yh, xw, yw]) on the four values as they were loaded: a value
\* that is a list makes the input ragged and raises ValueError (numpy 1.24 and
\* later); with a None among them the array holds the objects as they are;
\* otherwise one text among them turns every number into its text ('<U' dtype);
\* numbers alone stay numbers
NpArray(values) ==
  IF \E i \in 1..Len(values) : values[i].t = "list"
  THEN [array |-> << >>, exc |-> "ValueError"]
  ELSE IF \E i \in 1..Len(values) : values[i].t \notin {"num", "str"}
  THEN [array |-> values, exc |-> "none"]
  ELSE IF \E i \in 1..Len(values) : values[i].t = "str"
  THEN [array |-> [i \in 1..Len(values) |->
                     IF values[i].t = "num" THEN YStr(ToString(values[i].n))
                     ELSE values[i]],
        exc |-> "none"]
  ELSE [array |-> values, exc |-> "none"]

\* segment_trees_with_sam, the loop over the loaded detections: the input_box
\* of each entry, up to the first entry on which the subscripts or np.array
\* raise; `except Exception` ends the function there
RECURSIVE InputBoxes(_)
InputBoxes(tree_detections) ==
  IF tree_detections = << >> THEN [boxes |-> << >>, exc |-> "none"]
  ELSE LET detection == Head(tree_detections)
       IN IF SubscriptError(detection) # "none"
          THEN [boxes |-> << >>, exc |-> SubscriptError(detection)]
          ELSE LET input_box ==
                     NpArray(<<detection.xh, detection.yh, detection.xw, detection.yw>>)
               IN IF input_box.exc # "none"
                  THEN [boxes |-> << >>, exc |-> input_box.exc]
                  ELSE LET rest == InputBoxes(Tail(tree_detections))
                       IN [boxes |-> <<input_box.array>> \o rest.boxes,
                           exc |-> rest.exc]

\* ------------------------------- process_images_in_folder, process_directory
FileNames ==
  {FileName("street_view_0", ".jpg"), FileName("street_view_1", ".png"),
   FileName("aerial", ".jpeg"), FileName("AERIAL", ".JPG"), FileName("notes", ".txt")}

\* os.listdir of the input folder: distinct names in some order
Listings ==
  {l \in UNION {[1..n -> FileNames] : n \in 0..MaxFiles} :
     \A i, j \in 1..Len(l) : i # j => l[i] # l[j]}

\* str.lower() on an extension
LowerExt == (".jpg" :> ".jpg") @@ (".png" :> ".png") @@ (".jpeg" :> ".jpeg") @@
            (".JPG" :> ".jpg") @@ (".txt" :> ".txt")

\* the test on the file name: tree_detection compares the name as it is,
\* count_trees its lower case
Accepted(script, filename) ==
  IF script = "tree_detection" THEN filename.ext \in {".jpg", ".png"}
  ELSE LowerExt[filename.ext] \in {".png", ".jpg", ".jpeg"}

InitTrees ==
  /\ InitPipeline
  /\ coordinates_file = << >>
  /\ IdleCity
  /\ IdleAerial
  /\ IdleImages
  /\ tpc = "start"
  /\ tree_script \in {"tree_detection", "count_trees"}
  /\ input_folder \in {[exists |-> FALSE, files |-> << >>]}
                      \cup {[exists |-> TRUE, files |-> l] : l \in Listings}
  /\ fi = 0
  /\ tree_calls = << >>
  /\ tree_outputs = << >>
  /\ IdleStreet
  /\ IdleWindow

\* the function is entered: count_trees returns if the folder does not exist,
\* tree_detection lists it at once and os.listdir raises FileNotFoundError
TreeStart ==
  /\ tpc = "start"
  /\ tpc' = IF input_folder.exists THEN "files"
            ELSE IF tree_script = "count_trees" THEN "returned" ELSE "crashed"
  /\ UNCHANGED <<tree_script, input_folder, fi, tree_calls, tree_outputs>>
  /\ UNCHANGED nonTrees

\* a file whose name fails the test is passed over
TreeSkip ==
  /\ tpc = "files"
  /\ fi < Len(input_folder.files)
  /\ ~Accepted(tree_script, input_folder.files[fi + 1])
  /\ fi' = fi + 1
  /\ UNCHANGED <<tpc, tree_script, input_folder, tree_calls, tree_outputs>>
  /\ UNCHANGED nonTrees

\* mutant: an error in one image leaves the call and ends the loop
TreeDetectUncaught(env) ==
  /\ tpc = "files"
  /\ fi < Len(input_folder.files)
  /\ \E image \in {input_folder.files[fi + 1]} :
       /\ Accepted(tree_script, image)
       /\ \E r \in {IF tree_script = "tree_detection"
                    THEN run_tree_detection_yolo_class(env, image)
                    ELSE count_trees_run_tree_detection_yolo_class(env, image)} :
            /\ tree_calls' = Append(tree_calls, [image |-> image, env |-> env, result |-> r])
            /\ tree_outputs' = tree_outputs
                                 \o (IF r.image # Null THEN <<r.image[1].name>> ELSE << >>)
                                 \o (IF r.yaml # Null THEN <<r.yaml[1].name>> ELSE << >>)
            /\ IF r.error # "none"
               THEN /\ tpc' = "crashed"
                    /\ UNCHANGED fi
               ELSE /\ fi' = fi + 1
                    /\ UNCHANGED tpc
  /\ UNCHANGED <<tree_script, input_folder>>
  /\ UNCHANGED nonTrees

\* a file whose name passes the test: one call of run_tree_detection_yolo_class,
\* which catches every Exception itself
TreeDetect(env) ==
  /\ tpc = "files"
  /\ fi < Len(input_folder.files)
  /\ \E image \in {input_folder.files[fi + 1]} :
       /\ Accepted(tree_script, image)
       /\ \E r \in {IF tree_script = "tree_detection"
                    THEN run_tree_detection_yolo_class(env, image)
                    ELSE count_trees_run_tree_detection_yolo_class(env, image)} :
            /\ tree_calls' = Append(tree_calls, [image |-> image, env |-> env, result |-> r])
            /\ tree_outputs' = tree_outputs
                                 \o (IF r.image # Null THEN <<r.image[1].name>> ELSE << >>)
                                 \o (IF r.yaml # Null THEN <<r.yaml[1].name>> ELSE << >>)
  /\ fi' = fi + 1
  /\ UNCHANGED <<tpc, tree_script, input_folder>>
  /\ UNCHANGED nonTrees

TreeImage ==
  /\ tpc = "files"
  /\ fi < Len(input_folder.files)
  /\ \E env \in DetectEnvs : TreeDetect(env)

\* the listing is exhausted
TreeDone ==
  /\ tpc = "files"
  /\ fi = Len(input_folder.files)
  /\ tpc' = "done"
  /\ UNCHANGED <<tree_script, input_folder, fi, tree_calls, tree_outputs>>
  /\ UNCHANGED nonTrees

NextTrees ==
  \/ TreeStart
  \/ TreeSkip
  \/ TreeImage
  \/ TreeDone

SpecTrees == InitTrees /\ [][NextTrees]_vars

\* ===================================================== street_to_coordinate.py
\* a Python value of the script: None, a number or a text
PyNone == [t |-> "none", n |-> 0, s |-> ""]
PyNum(n) == [t |-> "num", n |-> n, s |-> ""]
PyStr(s) == [t |-> "str", n |-> 0, s |-> s]

\* `if x` on such a value
Truthy(x) == (x.t = "num" /\ x.n # 0) \/ (x.t = "str" /\ x.s # "")

\* what the Geocoding API answers: the request raises, or a body with a status
\* and, under "OK", the lat and lng of the first result
Geo(kind, status, lat, lng) == [kind |-> kind, status |-> status, lat |-> lat, lng |-> lng]

GeoAnswers ==
  {Geo("raise", "", PyNone, PyNone), Geo("json", "ZERO_RESULTS", PyNone, PyNone)}
  \cup {Geo("json", "OK", PyNum(lat), PyNum(lng)) : lat \in {12, 15, 0}, lng \in {0 - 3, 0}}

\* get_coordinates: the pair it returns
get_coordinates(answer) ==
  IF answer.status = "OK" THEN <<answer.lat, answer.lng>> ELSE <<PyNone, PyNone>>

\* the addresses typed at the prompt
Addresses == {"Ouseburn Road,Newcastle upon Tyne,UK", "12", "null"}

\* ------------------------------------------------- yaml.dump, yaml.safe_load
\* a scalar of a YAML text: its style, plain or single-quoted, and its characters
Scalar(style, text) == [style |-> style, text |-> text]

\* the value the implicit resolver gives to a plain scalar
ResolvePlain(text) ==
  IF text \in DOMAIN Numeral THEN YNum(Numeral[text])
  ELSE IF text \in {"", "~", "null", "Null", "NULL"} THEN YNull
  ELSE YStr(text)

\* repr of a number
Repr(n) == CHOOSE text \in DOMAIN Numeral : Numeral[text] = n

\* mutant: every text is emitted as a plain scalar
ScalarStylePlain(s) == "plain"

\* the style the emitter chooses for a text: plain only if the plain scalar
\* would be resolved to a text again
ScalarStyle(s) == IF ResolvePlain(s).t = "str" THEN "plain" ELSE "single"

\* yaml.dump of a number or a text
DumpScalar(x) ==
  IF x.t = "num" THEN Scalar("plain", Repr(x.n)) ELSE Scalar(ScalarStyle(x.s), x.s)

\* yaml.safe_load of a scalar
LoadScalar(sc) == IF sc.style = "plain" THEN ResolvePlain(sc.text) ELSE YStr(sc.text)

\* yaml.dump(coordinates_data): the text of {'Aim 1': {address, latitude, longitude}}
DumpCoordinates(address, lat, lng) ==
  [key |-> DumpScalar(PyStr("Aim 1")), address |-> DumpScalar(address),
   latitude |-> DumpScalar(lat), longitude |-> DumpScalar(lng)]

\* the text has four lines: "Aim 1:", "  address: ..", "  latitude: ..",
\* "  longitude: .."
CoordinateKeys == <<"address", "latitude", "longitude">>

\* the number of characters of a scalar in the text
ScalarLen(sc) == Len(Prefixes[sc.text]) + (IF sc.style = "single" THEN 2 ELSE 0)

\* the first chars characters of a scalar, standing last in the text, are not a
\* scalar: a quote that is not closed, a "-" alone
CutFails(sc, chars) ==
  IF sc.style = "single" THEN chars < ScalarLen(sc) ELSE Prefixes[sc.text][chars] = "-"

\* yaml.safe_load of the first chars characters of a scalar
LoadScalarPrefix(sc, chars) ==
  IF sc.style = "single" THEN YStr(sc.text)
  ELSE ResolvePlain(Stripped(Prefixes[sc.text][chars]))

\* what 'Aim 1' is loaded to: null, a text, or a mapping whose absent keys are
\* YAbsent; no timestamp is written
AimData(t, text, values) ==
  [t |-> t, s |-> text, address |-> values[1], latitude |-> values[2],
   longitude |-> values[3], timestamp |-> YAbsent]

\* the mapping loaded when the first n of the three lines are in the text, the
\* next key having the value `next` (YAbsent: the key is not there)
LoadedAim(text, n, next) ==
  LET vals == <<LoadScalar(text.address), LoadScalar(text.latitude),
                LoadScalar(text.longitude)>>
  IN AimData("map", "",
             [f \in 1..3 |-> IF f <= n THEN vals[f] ELSE IF f = n + 1 THEN next ELSE YAbsent])

\* yaml.safe_load of coordinates.yaml whose text ends at cut
LoadCoordinates(text, cut) ==
  LET scalars == <<text.address, text.latitude, text.longitude>>
      none3 == [f \in 1..3 |-> YAbsent]
      One(d) == Document("map", "", <<[key |-> LoadScalar(text.key), data |-> d]>>)
  IN IF cut.line = 0
     THEN CASE cut.part = "start" -> Document("none", "", << >>)
            [] cut.part = "key" ->
                 Document("str", Stripped(Prefixes[text.key.text][cut.chars]), << >>)
            [] cut.part = "colon" -> One(AimData("null", "", none3))
     ELSE CASE cut.part = "start" ->
                 IF cut.line = 1 THEN One(AimData("null", "", none3))
                 ELSE One(LoadedAim(text, cut.line - 1, YAbsent))
            [] cut.part = "key" ->
                 \* under 'Aim 1:' a lone word is its value; inside the mapping a
                 \* key without its colon is a ScannerError
                 IF cut.line = 1
                 THEN One(AimData("str", Prefixes[CoordinateKeys[1]][cut.chars], none3))
                 ELSE Document("error", "", << >>)
            [] cut.part = "colon" -> One(LoadedAim(text, cut.line - 1, YNull))
            [] cut.part = "value" ->
                 IF CutFails(scalars[cut.line], cut.chars) THEN Document("error", "", << >>)
                 ELSE One(LoadedAim(text, cut.line - 1,
                                    LoadScalarPrefix(scalars[cut.line], cut.chars)))

\* the cut of the text that is there in full
WholeCoordinates == Cut(4, "start", 0)

\* every place where the text can end
StreetCuts(text) ==
  LET scalars == <<text.address, text.latitude, text.longitude>>
  IN {Cut(n, part, 0) : n \in 0..3, part \in {"start", "colon"}}
     \cup {Cut(0, "key", c) : c \in 1..Len(Prefixes[text.key.text])}
     \cup UNION {{Cut(n, "key", c) : c \in 1..Len(Prefixes[CoordinateKeys[n]])} : n \in 1..3}
     \cup UNION {{Cut(n, "value", c) : c \in 1..ScalarLen(scalars[n])} : n \in 1..3}
     \cup {WholeCoordinates}

\* coordinates.yaml as coordinate_to_images.get_coordinates_from_yaml finds it:
\* no file, or the file with the text that reached it
AsYamlFile(written) ==
  IF written = Null THEN YamlFile("missing", "none", YAbsent, YAbsent)
  ELSE LET doc == LoadCoordinates(written[1].text, written[1].cut)
       IN CASE doc.kind = "error" -> YamlFile("unparseable", "none", YAbsent, YAbsent)
            [] doc.kind = "none" -> YamlFile("loaded", "none", YAbsent, YAbsent)
            [] doc.kind = "str" ->
                 \* `"Aim 1" in coordinates_data`: of the beginnings of 'Aim 1'
                 \* the whole one alone holds it
                 YamlFile("loaded", IF doc.s = "Aim 1" THEN "text_aim" ELSE "text",
                          YAbsent, YAbsent)
            [] doc.kind = "map" ->
                 LET item == doc.items[1]
                 IN IF item.key # YStr("Aim 1")
                    THEN YamlFile("loaded", "no_aim", YAbsent, YAbsent)
                    ELSE IF item.data.t = "null"
                    THEN YamlFile("loaded", "aim_null", YAbsent, YAbsent)
                    ELSE IF item.data.t = "str"
                    THEN YamlFile("loaded", "aim_text", YAbsent, YAbsent)
                    ELSE YamlFile("loaded", "aim", item.data.latitude, item.data.longitude)

\* Temp_Statistic.get_coordinates_from_yaml on what yaml.safe_load gives: the
\* YAMLError is not caught, None and a text have no .items(), and null and a
\* text have no .get()
get_coordinates_from_yaml(coordinates_data) ==
  IF coordinates_data.kind = "error"
  THEN [outcome |-> "raise", exc |-> "YAMLError", coordinates_list |-> << >>]
  ELSE IF coordinates_data.kind \in {"none", "str"}
  THEN [outcome |-> "raise", exc |-> "AttributeError", coordinates_list |-> << >>]
  ELSE IF \E i \in 1..Len(coordinates_data.items) : coordinates_data.items[i].data.t # "map"
  THEN [outcome |-> "raise", exc |-> "AttributeError", coordinates_list |-> << >>]
  ELSE [outcome |-> "return", exc |-> "none",
        coordinates_list |->
          [i \in 1..Len(coordinates_data.items) |->
             [aim_id |-> coordinates_data.items[i].key,
              address |-> DictGet(coordinates_data.items[i].data.address),
              latitude |-> DictGet(coordinates_data.items[i].data.latitude),
              longitude |-> DictGet(coordinates_data.items[i].data.longitude),
              timestamp |-> DictGet(coordinates_data.items[i].data.timestamp)]]]

\* ------------------------------------------------------------ the script
\* config.yaml as the script finds it
StreetConfigs ==
  {[state |-> "missing", api_key |-> Null], [state |-> "unparseable", api_key |-> Null],
   [state |-> "loaded", api_key |-> Null], [state |-> "loaded", api_key |-> Some("key")]}

InitStreet ==
  /\ InitPipeline
  /\ coordinates_file = << >>
  /\ IdleCity
  /\ IdleAerial
  /\ IdleImages
  /\ IdleTrees
  /\ stpc = "config"
  /\ street_config \in StreetConfigs
  /\ street_address \in Addresses
  /\ geocode \in GeoAnswers
  /\ street_lat = PyNone
  /\ street_lng = PyNone
  /\ coordinates_written = Null
  /\ images_read = Null
  /\ pipeline_read = Null
  /\ IdleWindow

\* the API key is loaded: a missing file and a missing key end the script,
\* a YAML error is not handled
StreetConfig ==
  /\ stpc = "config"
  /\ stpc' = IF street_config.state = "unparseable" THEN "crashed"
             ELSE IF street_config.state = "missing" \/ street_config.api_key = Null
                  THEN "exited"
             ELSE "prompt"
  /\ UNCHANGED <<street_config, street_address, geocode, street_lat, street_lng,
                 coordinates_written, images_read, pipeline_read>>
  /\ UNCHANGED nonStreet

\* the address is read and get_coordinates is called
StreetGeocode ==
  /\ stpc = "prompt"
  /\ IF geocode.kind = "raise"
     THEN /\ stpc' = "crashed"
          /\ UNCHANGED <<street_lat, street_lng>>
     ELSE /\ street_lat' = get_coordinates(geocode)[1]
          /\ street_lng' = get_coordinates(geocode)[2]
          /\ stpc' = "save"
  /\ UNCHANGED <<street_config, street_address, geocode, coordinates_written, images_read,
                 pipeline_read>>
  /\ UNCHANGED nonStreet

\* `if lat and lng:` the mapping is dumped to coordinates.yaml; an error in
\* writing is caught and reported. The file is left in one of three states:
\*   "ok"       it holds the dumped mapping
\*   "no_file"  open(COORDINATES_FILE_PATH, "w") raises: there is no file
\*   "partial"  open has created the file and yaml.dump or the closing of the
\*              file raises: the file holds the text that had reached it
StreetSave ==
  /\ stpc = "save"
  /\ IF Truthy(street_lat) /\ Truthy(street_lng)
     THEN LET text == DumpCoordinates(PyStr(street_address), street_lat, street_lng)
          IN \E w \in {"ok", "no_file", "partial"} :
               CASE w = "ok" ->
                      coordinates_written' = Some([text |-> text, cut |-> WholeCoordinates])
                 [] w = "no_file" -> coordinates_written' = Null
                 [] w = "partial" ->
                      \E cut \in StreetCuts(text) :
                        coordinates_written' = Some([text |-> text, cut |-> cut])
     ELSE UNCHANGED coordinates_written
  /\ stpc' = "done"
  /\ UNCHANGED <<street_config, street_address, geocode, street_lat, street_lng, images_read,
                 pipeline_read>>
  /\ UNCHANGED nonStreet

\* coordinate_to_images reads the file the script left
StreetReadImages ==
  /\ stpc = "done"
  /\ images_read = Null
  /\ images_read' = Some(images_get_coordinates_from_yaml(AsYamlFile(coordinates_written)))
  /\ UNCHANGED <<stpc, street_config, street_address, geocode, street_lat, street_lng,
                 coordinates_written, pipeline_read>>
  /\ UNCHANGED nonStreet

\* Temp_Statistic reads the file the script left: open raises if there is none
StreetReadPipeline ==
  /\ stpc = "done"
  /\ pipeline_read = Null
  /\ pipeline_read' =
       IF coordinates_written = Null
       THEN Some([outcome |-> "raise", exc |-> "FileNotFoundError",
                  coordinates_list |-> << >>])
       ELSE Some(get_coordinates_from_yaml(
                   LoadCoordinates(coordinates_written[1].text, coordinates_written[1].cut)))
  /\ UNCHANGED <<stpc, street_config, street_address, geocode, street_lat, street_lng,
                 coordinates_written, images_read>>
  /\ UNCHANGED nonStreet

NextStreet ==
  \/ StreetConfig
  \/ StreetGeocode
  \/ StreetSave
  \/ StreetReadImages
  \/ StreetReadPipeline

SpecStreet == InitStreet /\ [][NextStreet]_vars

\* =========================== Temp_Statistic.get_historical_temperature: dates
\* the years datetime.now() is taken from: FirstYear and the WindowYears - 1 after it
FirstYear == 2024
WindowYears == 2

\* a calendar date
Date(year, month, day) == [year |-> year, month |-> month, day |-> day]

IsLeap(year) == year % 4 = 0 /\ (year % 100 # 0 \/ year % 400 = 0)

DaysInMonth(year, month) ==
  IF month = 2 /\ IsLeap(year) THEN 29
  ELSE <<31, 28, 31, 30, 31, 30, 31, 31, 30, 31, 30, 31>>[month]

\* the days of the years before `year`, counted from 0001-01-01
DaysBeforeYear(year) ==
  LET y == year - 1 IN y * 365 + y \div 4 - y \div 100 + y \div 400

\* the days of `year` before the first of `month`
RECURSIVE DaysBeforeMonth(_, _)
DaysBeforeMonth(year, month) ==
  IF month = 1 THEN 0
  ELSE DaysBeforeMonth(year, month - 1) + DaysInMonth(year, month - 1)

\* date.toordinal(): 0001-01-01 is day 1
ToOrdinal(d) == DaysBeforeYear(d.year) + DaysBeforeMonth(d.year, d.month) + d.day

\* date.fromordinal(n)
FromOrdinal(n) ==
  LET year == CHOOSE y \in (n \div 366)..(n \div 365 + 1) :
                DaysBeforeYear(y) < n /\ n <= DaysBeforeYear(y + 1)
      rest == n - DaysBeforeYear(year)
      month == CHOOSE m \in 1..12 :
                 DaysBeforeMonth(year, m) < rest
                 /\ rest <= DaysBeforeMonth(year, m) + DaysInMonth(year, m)
  IN Date(year, month, rest - DaysBeforeMonth(year, month))

\* mutant: the window is 5 * 365 + 1 days long
WindowDaysWithLeapDay == 5 * 365 + 1

\* timedelta(days=5 * 365)
WindowDays == 5 * 365

\* end_date - timedelta(days): the calendar date of the difference
MinusDays(d, days) == FromOrdinal(ToOrdinal(d) - days)

\* the dates datetime.now() can fall on
Today ==
  {Date(y, m, d) : y \in FirstYear..(FirstYear + WindowYears - 1), m \in 1..12, d \in 1..31}

InitWindow ==
  /\ InitPipeline
  /\ coordinates_file = << >>
  /\ IdleCity
  /\ IdleAerial
  /\ IdleImages
  /\ IdleTrees
  /\ IdleStreet
  /\ wpc = "start"
  /\ today \in {d \in Today : d.day <= DaysInMonth(d.year, d.month)}
  /\ window = Null

\* end_date and start_date are computed and formatted into the URL as %Y-%m-%d
WindowDates ==
  /\ wpc = "start"
  /\ window' = Some([start_date |-> MinusDays(today, WindowDays), end_date |-> today])
  /\ wpc' = "requested"
  /\ UNCHANGED today
  /\ UNCHANGED nonWindow

NextWindow == WindowDates

SpecWindow == InitWindow /\ [][NextWindow]_vars

\* --------------------------------------------------------- derived notions
\* the names an execution has written
RunWrites(r) == {writes[i].name : i \in {j \in 1..Len(writes) : writes[j].run = r}}

TypeOK ==
  /\ pc \in {"start", "fetch", "heatmap", "trend_start", "trend", "save_json", "save_csv",
             "save_stats", "done", "aborted"}
  /\ run \in 1..MaxRuns
  /\ now \in 0..MaxClock
  /\ idx \in 0..Len(coordinates_list)
  /\ Len(temperature_data) = Len(detailed_data)

\* the aim_ids of a list of records, in order
IdsOf(l) == [i \in 1..Len(l) |-> l[i].aim_id]

\* the aim_ids whose request returned a frame, in request order
RECURSIVE Fetched(_, _)
Fetched(reqs, outs) ==
  IF reqs = << >> THEN << >>
  ELSE (IF Head(outs) = "frame" THEN <<Head(reqs)>> ELSE << >>) \o Fetched(Tail(reqs), Tail(outs))

\* no request of the running execution has returned a frame
NoSuccess == \A i \in 1..Len(outcomes) : outcomes[i] # "frame"

\* the fetch loop of the running execution is over
LoopOver == pc \notin {"start", "fetch", "aborted"}

\* ================================================================= claims

\* C1: a location whose response has no `daily` key gets no entry in
\* temperature_data or detailed_data; such a response never ends the run, the
\* loop goes on to every later location (once the loop is over every location
\* of the list has been requested, in order), and the data in memory is that
\* of exactly the locations whose request returned a frame.
C1_NoDailySkipped ==
  /\ \A i \in 1..Len(outcomes) :
       outcomes[i] = "none" =>
         /\ \A j \in 1..Len(temperature_data) : temperature_data[j].aim_id # requests[i]
         /\ \A j \in 1..Len(detailed_data) : detailed_data[j].aim_id # requests[i]
  /\ \A i \in 1..Len(outcomes) : outcomes[i] = "none" => i <= idx
  /\ (pc = "aborted" /\ abort_cause \in {"RequestException", "KeyError"})
       => outcomes[Len(outcomes)] = "raise"
  /\ LoopOver => requests = IdsOf(coordinates_list)
  /\ pc # "start" => IdsOf(temperature_data) = Fetched(requests, outcomes)
  /\ pc # "start" => IdsOf(detailed_data) = Fetched(requests, outcomes)

\* a run that skipped a location without `daily`, fetched a later one and completed
C1_Witness ==
  /\ pc = "done"
  /\ Len(outcomes) = 2
  /\ outcomes[1] = "none"
  /\ outcomes[2] = "frame"
  /\ RunWrites(run) # {}

\* C2: a request that raises is recoverable: it never ends the run.
C2_NetworkErrorRecoverable == ~(pc = "aborted" /\ abort_cause = "RequestException")

\* C3: when a run completes, the number of per-location CSV files it wrote
\* equals the number of locations whose request returned a frame.
C3_CsvPerFetchedLocation ==
  pc = "done" =>
    Cardinality({n \in RunWrites(run) : n.prefix = "temperature_data_"})
      = Cardinality({i \in 1..Len(outcomes) : outcomes[i] = "frame"})

\* a completed run in which every location of a two-location list was fetched
C3_Witness ==
  /\ pc = "done"
  /\ Len(outcomes) = 2
  /\ outcomes[1] = "frame"
  /\ outcomes[2] = "frame"
  /\ Cardinality({n \in RunWrites(run) : n.prefix = "temperature_data_"}) = 2

\* C4: as long as no request of a run has returned a frame, the run has written
\* no file and has entered none of create_heatmap, create_trend_plots,
\* save_temperature_data; this holds in particular when the run is over.
C4_NoFetchNoOutput == NoSuccess => (RunWrites(run) = {} /\ calls = << >>)

\* a completed run over a non-empty list in which no request returned a frame
C4_Witness ==
  /\ pc = "done"
  /\ coordinates_list # << >>
  /\ Len(outcomes) = Len(coordinates_list)
  /\ NoSuccess

\* C5 as stated: no name is written by two different executions.
C5_NeverOverwritten ==
  \A i, j \in 1..Len(writes) : writes[i].run # writes[j].run => writes[i].name # writes[j].name

\* C5: two executions write the same name only when the timestamps they hold
\* for it were formatted in the same clock second; names whose timestamps were
\* formatted in different seconds are different.
C5_SameNameOnlyInSameSecond ==
  \A i, j \in 1..Len(writes) :
    (writes[i].run # writes[j].run /\ writes[i].stamp # writes[j].stamp)
      => writes[i].name # writes[j].name

\* two executions that wrote their heat-maps in different seconds
C5_Witness ==
  \E i, j \in 1..Len(writes) :
    /\ writes[i].run # writes[j].run
    /\ writes[i].name.prefix = "temperature_heatmap_"
    /\ writes[j].name.prefix = "temperature_heatmap_"
    /\ writes[i].stamp # writes[j].stamp

\* C6: every file of one execution carries the same timestamp.
C6_OneTimestampPerRun ==
  \A i, j \in 1..Len(writes) :
    writes[i].run = writes[j].run => writes[i].name.timestamp = writes[j].name.timestamp

\* C7: a run that has written a file has finished its fetch loop for every
\* location; during the loop (and before it) the run has written nothing.
C7_NoOutputBeforeLoopEnds ==
  /\ RunWrites(run) # {} =>
       (idx = Len(coordinates_list) /\ requests = IdsOf(coordinates_list))
  /\ pc \in {"start", "fetch"} => RunWrites(run) = {}

\* the loop is under way with fetched data in memory and a location still to come
C7_Witness ==
  /\ pc = "fetch"
  /\ temperature_data # << >>
  /\ idx < Len(coordinates_list)
  /\ RunWrites(run) = {}

\* ------------------------------------------------ statistics, stated directly
\* the seasons of section 3: Dec-Feb, Mar-May, Jun-Aug, Sep-Nov
SeasonMonths ==
  [Winter |-> {12, 1, 2}, Spring |-> {3, 4, 5}, Summer |-> {6, 7, 8}, Autumn |-> {9, 10, 11}]

\* the rows of a frame whose date falls in season s
RowsIn(df, s) == {i \in 1..Len(df["date"]) : df["date"][i][2] \in SeasonMonths[s]}

\* those of them on which column m holds a number
NumbersIn(df, m, s) == {i \in RowsIn(df, s) : ~IsNull(df[m][i])}

RECURSIVE SumOver(_, _)
SumOver(col, I) ==
  IF I = {} THEN 0
  ELSE LET i == CHOOSE x \in I : TRUE IN col[i][1] + SumOver(col, I \ {i})

\* h hundredths are num/den to the nearest hundredth
Nearest(h, num, den) == 2 * Abs(100 * num - den * h) <= den

\* v is the mean of the numbers of col on I, to the nearest hundredth (the
\* numbers are eighths)
IsMean(v, col, I) ==
  IF I = {} THEN IsNull(v)
  ELSE /\ ~IsNull(v)
       /\ Nearest(v[1], SumOver(col, I), Unit * Cardinality(I))

IsMin(v, col, I) ==
  IF I = {} THEN IsNull(v)
  ELSE /\ ~IsNull(v)
       /\ \E i \in I : Nearest(v[1], col[i][1], Unit) /\ \A j \in I : col[i][1] <= col[j][1]

IsMax(v, col, I) ==
  IF I = {} THEN IsNull(v)
  ELSE /\ ~IsNull(v)
       /\ \E i \in I : Nearest(v[1], col[i][1], Unit) /\ \A j \in I : col[i][1] >= col[j][1]

IsSum(v, col, I) == ~IsNull(v) /\ Nearest(v[1], SumOver(col, I), Unit)

IsStatistic(a, v, col, I) ==
  CASE a = "mean" -> IsMean(v, col, I)
    [] a = "min" -> IsMin(v, col, I)
    [] a = "max" -> IsMax(v, col, I)
    [] a = "sum" -> IsSum(v, col, I)

\* the statistics each metric gets
StatisticsOf(m) == IF m = "precipitation" THEN {"sum", "mean", "max"} ELSE {"mean", "min", "max"}

SeasonsPresent(df) == {s \in Seasons : RowsIn(df, s) # {}}

\* C8 as stated: every metric, precipitation included, has a mean, a min and
\* a max entry for every season present.
C8_EveryMetricHasMeanMinMax ==
  pc = "done" =>
    \A r \in 1..Len(stats) : \A s \in SeasonsPresent(detailed_data[r].df) :
      \A m \in Metrics : \A a \in {"mean", "min", "max"} :
        <<Lower[s], m, a>> \in DOMAIN stats[r].stats

\* C8: for every location and every season present in its records the
\* statistics row holds, for temperature_mean, temperature_max, temperature_min
\* and humidity, the mean, min and max, and for precipitation the sum, mean and
\* max (no min), each taken over the numbers of that season's records and
\* rounded to two decimals; it holds no other seasonal entry.
C8_SeasonalStatistics ==
  pc = "done" =>
    \A r \in 1..Len(stats) :
      LET df == detailed_data[r].df
          st == stats[r].stats
      IN /\ DOMAIN st =
              {key \in {<<Lower[s], m, a>> : s \in SeasonsPresent(df), m \in Metrics,
                                              a \in {"sum", "mean", "min", "max"}} :
                 key[3] \in StatisticsOf(key[2])}
         /\ \A s \in SeasonsPresent(df) : \A m \in Metrics : \A a \in StatisticsOf(m) :
              /\ <<Lower[s], m, a>> \in DOMAIN st
              /\ IsStatistic(a, st[<<Lower[s], m, a>>], df[m], NumbersIn(df, m, s))

\* a completed run whose frame has a season with three records and a null
C8_Witness ==
  /\ pc = "done"
  /\ Len(stats) = 1
  /\ Cardinality(RowsIn(detailed_data[1].df, "Winter")) = 3
  /\ Cardinality(NumbersIn(detailed_data[1].df, "precipitation", "Winter")) = 2
  /\ <<"winter", "precipitation", "sum">> \in DOMAIN stats[1].stats

\* C9: both copies of the month-to-season mapping are defined on exactly the
\* months 1..12, agree, and send Dec-Feb to Winter, Mar-May to Spring, Jun-Aug
\* to Summer and Sep-Nov to Autumn, three months each; every record the
\* pipeline has annotated carries the season of its month.
C9_SeasonPartition ==
  /\ DOMAIN SeasonMapSave = 1..12
  /\ DOMAIN SeasonMapTrend = 1..12
  /\ \A m \in 1..12 :
       /\ SeasonMapSave[m] = SeasonMapTrend[m]
       /\ SeasonMapSave[m] \in Seasons
       /\ m \in SeasonMonths[SeasonMapSave[m]]
  /\ \A s \in Seasons : Cardinality({m \in 1..12 : SeasonMapSave[m] = s}) = 3
  /\ \A r \in 1..Len(detailed_data) :
       LET df == detailed_data[r].df
       IN "season" \in DOMAIN df =>
            \A i \in 1..Len(df["date"]) :
              /\ df["season"][i] \in Seasons
              /\ df["date"][i][2] \in SeasonMonths[df["season"][i]]
              /\ df["month"][i] = df["date"][i][2]

\* a completed run whose frame has records in February, March, November and December
C9_Witness ==
  /\ pc = "done"
  /\ Len(detailed_data) = 1
  /\ "season" \in DOMAIN detailed_data[1].df
  /\ detailed_data[1].df["month"] = <<2, 3, 11, 12>>

\* the frame has a record in every season and temperature_mean is c on every record
ConstantYear(df, c) ==
  /\ SeasonsPresent(df) = Seasons
  /\ \A i \in 1..Len(df["date"]) : df["temperature_mean"][i] = Some(c)

\* C10 as stated: when the records of a location cover all four seasons and
\* temperature_mean is the same number c on every record, the statistics row
\* gives c as mean, min and max of temperature_mean for each of the four seasons.
C10_ConstantYear ==
  pc = "done" =>
    \A r \in 1..Len(stats) : \A c \in {d.tmean[1] : d \in Days} :
      ConstantYear(detailed_data[r].df, c) =>
        \A s \in Seasons : \A a \in {"mean", "min", "max"} :
          /\ <<Lower[s], "temperature_mean", a>> \in DOMAIN stats[r].stats
          /\ stats[r].stats[<<Lower[s], "temperature_mean", a>>] # Null
          /\ Unit * stats[r].stats[<<Lower[s], "temperature_mean", a>>][1] = 100 * c

\* C10, amended: when the records of a location cover all four seasons and
\* temperature_mean is the same number c on every record, the statistics row
\* gives c rounded to two decimals as mean, min and max of temperature_mean for
\* each of the four seasons: the nearest hundredth, the even one when c lies
\* halfway between two, and so c itself when c has at most two decimals.
C10_ConstantYearRounded ==
  pc = "done" =>
    \A r \in 1..Len(stats) : \A c \in {d.tmean[1] : d \in Days} :
      ConstantYear(detailed_data[r].df, c) =>
        \A s \in Seasons : \A a \in {"mean", "min", "max"} :
          /\ <<Lower[s], "temperature_mean", a>> \in DOMAIN stats[r].stats
          /\ stats[r].stats[<<Lower[s], "temperature_mean", a>>] # Null
          /\ LET h == stats[r].stats[<<Lower[s], "temperature_mean", a>>][1]
             IN /\ Nearest(h, c, Unit)
                /\ 2 * Abs(100 * c - Unit * h) = Unit => h % 2 = 0

\* a completed run over twelve records, three in every season, of constant
\* temperature_mean 0.625: every season's mean is 0.62
C10_Witness ==
  /\ pc = "done"
  /\ Len(stats) = 1
  /\ ConstantYear(detailed_data[1].df, 5)
  /\ detailed_data[1].df["month"] = <<1, 2, 3, 4, 5, 6, 7, 8, 9, 10, 11, 12>>
  /\ \A s \in Seasons : stats[1].stats[<<Lower[s], "temperature_mean", "mean">>] = Some(62)

\* C11: the heat-map is centred at the arithmetic mean of the latitudes and of
\* the longitudes of exactly the locations whose request returned a frame, and
\* its points are these locations, one each, in request order, each weighted by
\* the mean of the temperature_mean values of that location's frame; a location
\* whose request returned nothing is in neither.
C11_HeatmapOverFetched ==
  heatmap # Null =>
    LET ok == Fetched(requests, outcomes)
        loc(i) == coordinates_list[CHOOSE j \in 1..Len(coordinates_list) :
                                     coordinates_list[j].aim_id = ok[i]]
        frame(i) == detailed_data[CHOOSE j \in 1..Len(detailed_data) :
                                     detailed_data[j].aim_id = ok[i]].df
        lats == [i \in 1..Len(ok) |-> loc(i).latitude]
        lngs == [i \in 1..Len(ok) |-> loc(i).longitude]
        c == heatmap[1].location
        pts == heatmap[1].heatmap_data
    IN /\ ok # << >>
       /\ c[1][2] > 0 /\ c[1][1] * Len(ok) = c[1][2] * SumSeq(lats)
       /\ c[2][2] > 0 /\ c[2][1] * Len(ok) = c[2][2] * SumSeq(lngs)
       /\ Len(pts) = Len(ok)
       /\ \A i \in 1..Len(ok) :
            LET nums == NonNull(frame(i)["temperature_mean"])
            IN /\ pts[i][1] = loc(i).latitude
               /\ pts[i][2] = loc(i).longitude
               /\ nums # << >>
               /\ pts[i][3] # Null
               /\ pts[i][3][1][2] > 0
               /\ pts[i][3][1][1] * Len(nums) = pts[i][3][1][2] * SumSeq(nums)

\* a heat-map built although a location of the list returned no frame
C11_Witness ==
  /\ heatmap # Null
  /\ \E i \in 1..Len(outcomes) : outcomes[i] = "none"

\* C12: the statistics table has one row per location whose request returned a
\* frame, in the order of the locations list; a row carries the aim_id, address,
\* latitude and longitude of its location, and its statistics are keyed by
\* (season in lower case, metric, statistic): one key for every season present
\* in the location's records, every metric and every statistic computed for
\* that metric, and no other key.
C12_OneRowPerFetchedLocation ==
  (pc = "done" /\ temperature_data # << >>) =>
    /\ IdsOf(stats) = Fetched(requests, outcomes)
    /\ \A i, j \in 1..Len(stats) :
         i < j => \E a, b \in 1..Len(coordinates_list) :
                    /\ a < b
                    /\ coordinates_list[a].aim_id = stats[i].aim_id
                    /\ coordinates_list[b].aim_id = stats[j].aim_id
    /\ \A i \in 1..Len(stats) :
         /\ \E a \in 1..Len(coordinates_list) :
              /\ coordinates_list[a].aim_id = stats[i].aim_id
              /\ stats[i].address = Some(coordinates_list[a].address)
              /\ stats[i].latitude = Some(coordinates_list[a].latitude)
              /\ stats[i].longitude = Some(coordinates_list[a].longitude)
         /\ \A key \in DOMAIN stats[i].stats :
              \E s \in SeasonsPresent(detailed_data[i].df) : \E m \in Metrics :
                \E a \in StatisticsOf(m) : key = <<Lower[s], m, a>>
         /\ \A s \in SeasonsPresent(detailed_data[i].df) : \A m \in Metrics :
              \A j \in 1..Len(AggSpec[m]) : <<Lower[s], m, AggSpec[m][j]>> \in DOMAIN stats[i].stats

\* a statistics table of one row, written by a run that also skipped a location
C12_Witness ==
  /\ pc = "done"
  /\ Len(stats) = 1
  /\ Len(requests) = 2
  /\ stats[1].aim_id = requests[2]

\* C13: an execution whose configuration or locations file cannot be loaded is
\* aborted there: it has issued no HTTP request, entered no output function and
\* written no file.
C13_LoadFailureBeforeNetwork ==
  abort_cause = "config" =>
    /\ pc = "aborted"
    /\ requests = << >>
    /\ calls = << >>
    /\ RunWrites(run) = {}

\* a second execution that fails to load its files after a first one wrote output
C13_Witness ==
  /\ run = 2
  /\ pc = "aborted"
  /\ abort_cause = "config"
  /\ RunWrites(1) # {}

\* C14: at every moment of an execution the requests issued so far are those
\* for the first locations of the list, one each and in list order, so no
\* location is requested twice; every request issued has returned, and a later
\* location is requested only when every earlier one has been dealt with.
C14_OneRequestPerLocationInOrder ==
  /\ Len(requests) <= Len(coordinates_list)
  /\ \A i \in 1..Len(requests) : requests[i] = coordinates_list[i].aim_id
  /\ \A i, j \in 1..Len(requests) : i # j => requests[i] # requests[j]
  /\ Len(outcomes) = Len(requests)
  /\ \A i \in 1..Len(outcomes) : outcomes[i] = "raise" => i = Len(outcomes) /\ pc = "aborted"
  /\ Len(requests) = idx + (IF pc = "aborted" /\ abort_cause \in {"RequestException", "KeyError"}
                            THEN 1 ELSE 0)

\* the second location is requested after the first returned without data
C14_Witness ==
  /\ Len(coordinates_list) = 2
  /\ Len(requests) = 2
  /\ outcomes[1] = "none"

CityTypeOK == cpc \in {"start", "returned", "year", "nodes", "year_output", "all_years", "html", "done", "aborted"}

\* C15: in cityHeatmap.create_heatmap the requests issued for a year, those
\* that gave no value included, are never more than api_limit_per_key, whatever
\* the number of nodes inside the polygon.
C15_RequestsWithinLimit ==
  \A i \in 1..Len(api_keys) :
    Cardinality(IssuedFor(api_keys[i].year)) <= api_limit_per_key

\* more nodes than the limit, and a year that used its whole limit although a
\* request of it gave no value
C15_Witness ==
  /\ Len(nodes_filtered) > api_limit_per_key
  /\ \E i \in 1..Len(api_keys) :
       /\ Cardinality(IssuedFor(api_keys[i].year)) = api_limit_per_key
       /\ \E j \in IssuedFor(api_keys[i].year) : issued[j].outcome = "none"

\* the error cases of one answer: the request fails or has a bad status, the
\* body does not parse or has no `data` or `weather`, the weather list is
\* empty, or an avgtempC is missing or is not a numeral
ErrorAnswer(resp) ==
  \/ resp.kind # "json"
  \/ resp.data # "weather"
  \/ resp.weather = << >>
  \/ \E i \in 1..Len(resp.weather) :
       resp.weather[i].t # "str" \/ resp.weather[i].s \notin DOMAIN Numeral

\* C17: get_historical_avg_temperature never raises; it returns None on every
\* error answer and otherwise the arithmetic mean of the avgtempC values.
C17_MeanOrNone ==
  issued # << >> =>
    LET resp == last_call.resp
        r == last_call.result
        vals == [i \in 1..Len(resp.weather) |-> Numeral[resp.weather[i].s]]
    IN /\ r.outcome # "raise"
       /\ ErrorAnswer(resp) => r.outcome = "none"
       /\ ~ErrorAnswer(resp) =>
            /\ r.outcome = "value"
            /\ r.value[2] > 0
            /\ r.value[1] * Len(vals) = r.value[2] * SumSeq(vals)

\* C16: download_static_map_image returns True exactly when the image was
\* downloaded and written, and on every request failure (no connection, a
\* timeout, an error status) it returns False to its caller and does not raise.
C16_FalseOnRequestFailure ==
  \A i \in 1..Len(downloads) :
    LET env == downloads[i].env
        r == downloads[i].result
    IN /\ (r.outcome = "True") <=> (env.get = "ok" /\ env.status = "ok" /\ env.body = "ok"
                                    /\ env.open = "ok" /\ r.file = "image")
       /\ (env.get # "ok" \/ env.status # "ok") => r.outcome = "False"

\* the cases in which no coordinates are to be had from the file: it is
\* missing or unparseable, it has no 'Aim 1', or under 'Aim 1' the latitude or
\* the longitude is absent or is not numeric
NoCoordinates(file) ==
  \/ file.state # "loaded"
  \/ file.top # "aim"
  \/ \E y \in {file.latitude, file.longitude} :
       \/ y.t \in {"absent", "null", "list"}
       \/ y.t = "str" /\ y.s \notin DOMAIN Numeral

\* C18: coordinate_to_images.get_coordinates_from_yaml returns (None, None) in
\* every case without coordinates and otherwise the two values as floats; its
\* result is two floats or two Nones, never one of each.
C18_BothOrNeither ==
  coords_result # << >> =>
    /\ coords_result.outcome = "return"
    /\ IsNull(coords_result.latitude) <=> IsNull(coords_result.longitude)
    /\ NoCoordinates(images_yaml) <=> IsNull(coords_result.latitude)

\* C19: a response whose `daily` object lacks one of the six arrays makes
\* get_historical_temperature return nothing, without raising: no run is ended
\* by the KeyError of a missing array.
C19_PartialDailySkipped ==
  /\ ~(pc = "aborted" /\ abort_cause = "KeyError")
  /\ \A i \in 1..Len(outcomes) : outcomes[i] = "raise" => abort_cause # "KeyError"

\* the six fields of a fetched daily record
FetchedFields ==
  {"date", "temperature_max", "temperature_min", "temperature_mean", "humidity", "precipitation"}

\* C20: within a run, no step changes a frame that has been fetched otherwise
\* than by adding columns: the frames stay the same locations' in the same
\* order, and in each the six fetched columns keep every value, hence the
\* number and the order of the records.
C20_FetchedRecordsImmutable ==
  [][run' = run =>
       /\ Len(detailed_data') >= Len(detailed_data)
       /\ \A i \in 1..Len(detailed_data) :
            /\ detailed_data'[i].aim_id = detailed_data[i].aim_id
            /\ DOMAIN detailed_data[i].df \subseteq DOMAIN detailed_data'[i].df
            /\ \A c \in FetchedFields : detailed_data'[i].df[c] = detailed_data[i].df[c]]_vars

\* a completed run whose two frames, one with a missing value, were annotated
\* by create_trend_plots and save_temperature_data
C20_Witness ==
  /\ pc = "done"
  /\ Len(detailed_data) = 2
  /\ \A i \in 1..2 : {"season", "aim_id"} \subseteq DOMAIN detailed_data[i].df
  /\ \E i \in 1..2 : \E j \in 1..Len(detailed_data[i].df["precipitation"]) :
       IsNull(detailed_data[i].df["precipitation"][j])

\* the frame and the statistics row that a location's own entry of the
\* locations file and its own six fetched columns determine
OwnSeason(month) == CHOOSE s \in Seasons : month \in SeasonMonths[s]
OwnFrame(loc, df) ==
  LET n == Len(df["date"])
  IN [c \in FetchedFields \cup {"aim_id", "address", "latitude", "longitude", "month", "year", "season"} |->
        CASE c \in FetchedFields -> df[c]
          [] c = "aim_id" -> [i \in 1..n |-> loc.aim_id]
          [] c = "address" -> [i \in 1..n |-> loc.address]
          [] c = "latitude" -> [i \in 1..n |-> Some(loc.latitude)]
          [] c = "longitude" -> [i \in 1..n |-> Some(loc.longitude)]
          [] c = "month" -> [i \in 1..n |-> df["date"][i][2]]
          [] c = "year" -> [i \in 1..n |-> df["date"][i][1]]
          [] c = "season" -> [i \in 1..n |-> OwnSeason(df["date"][i][2])]]
OwnRow(loc, df) ==
  [aim_id |-> loc.aim_id, address |-> Some(loc.address), latitude |-> Some(loc.latitude),
   longitude |-> Some(loc.longitude), stats |-> SeasonalStats(OwnFrame(loc, df))]

\* the entry of the locations list with a given aim_id
EntryOf(aim_id) ==
  coordinates_list[CHOOSE j \in 1..Len(coordinates_list) : coordinates_list[j].aim_id = aim_id]

\* the cells of the statistics row that a location's own entry and records give
OwnCells(loc, df) ==
  LET row == OwnRow(loc, df)
  IN [c \in {IdentityKeys[j] : j \in 1..Len(IdentityKeys)} \cup DOMAIN row.stats |->
        CASE c = <<"aim_id">> -> Some(row.aim_id)
          [] c = <<"address">> -> row.address
          [] c = <<"latitude">> -> row.latitude
          [] c = <<"longitude">> -> row.longitude
          [] OTHER -> row.stats[c]]

\* the per-location CSV content of a location is determined by its own entry
\* of the locations file and its own six fetched columns
OwnCsvContent ==
  pc \in {"save_csv", "save_stats", "done"} =>
    \A i \in 1..Len(detailed_data) :
      (pc = "save_csv" => i <= k) =>
        detailed_data[i].df = OwnFrame(EntryOf(detailed_data[i].aim_id), detailed_data[i].df)

\* C21 as stated: the per-location CSV content and the statistics row of a
\* location are those determined by its own entry of the locations file and
\* its own six fetched columns alone, whatever the other locations' data, order
\* and fetch outcome are; so two runs that differ only in the other locations
\* give the same CSV content and the same statistics row for it.
C21_OutputsOfOwnDataOnly ==
  /\ OwnCsvContent
  /\ statistics_frame # Null =>
       \A i \in 1..Len(statistics_frame[1].rows) :
         statistics_frame[1].rows[i]
           = OwnCells(EntryOf(detailed_data[i].aim_id), detailed_data[i].df)

\* C21, amended: the per-location CSV content and the statistics computed for
\* a location are those determined by its own entry of the locations file and
\* its own six fetched columns alone, whatever the other locations' data, order
\* and fetch outcome are. The columns of the statistics table are the keys of
\* all fetched locations, each where it is seen first; the row of a location
\* holds its own values under its own keys, each the statistic of its own
\* records, and an empty cell under every column that only other locations
\* have.
C21_OwnValuesInSharedColumns ==
  /\ OwnCsvContent
  /\ statistics_frame # Null =>
       LET table == statistics_frame[1]
           names == {table.columns[j] : j \in 1..Len(table.columns)}
       IN /\ Len(table.rows) = Len(detailed_data)
          /\ Len(stats) = Len(detailed_data)
          /\ \A a, b \in 1..Len(table.columns) : a # b => table.columns[a] # table.columns[b]
          /\ names = UNION {DOMAIN OwnCells(EntryOf(detailed_data[i].aim_id), detailed_data[i].df) :
                              i \in 1..Len(detailed_data)}
          /\ \A i \in 1..Len(table.rows) :
               LET df == detailed_data[i].df
                   own == OwnCells(EntryOf(detailed_data[i].aim_id), df)
               IN /\ stats[i] = OwnRow(EntryOf(detailed_data[i].aim_id), df)
                  /\ DOMAIN table.rows[i] = names
                  /\ \A c \in names :
                       IF c \in DOMAIN own THEN table.rows[i][c] = own[c]
                       ELSE table.rows[i][c] = Null
                  /\ \A s \in SeasonsPresent(df) : \A m \in Metrics : \A a \in StatisticsOf(m) :
                       /\ <<Lower[s], m, a>> \in names
                       /\ IsStatistic(a, table.rows[i][<<Lower[s], m, a>>], df[m],
                                      NumbersIn(df, m, s))

\* a completed run of two fetched locations, the second listed location having
\* the smaller aim_id: the first row has empty cells under the summer columns,
\* which only the second location has
C21_Witness ==
  /\ pc = "done"
  /\ Len(stats) = 2
  /\ stats[1].aim_id > stats[2].aim_id
  /\ statistics_frame # Null
  /\ <<"summer", "humidity", "max">> \in DOMAIN statistics_frame[1].rows[1]
  /\ <<"summer", "humidity", "max">> \notin DOMAIN stats[1].stats
  /\ statistics_frame[1].rows[1][<<"summer", "humidity", "max">>] = Null
  /\ statistics_frame[1].rows[2][<<"summer", "humidity", "max">>] # Null

\* ------------------------------------------------------------------ C22
\* the place of an output in process_temperature_pipeline, by the prefix of its name
StageRank ==
  ("temperature_heatmap_" :> 1) @@ ("temperature_trends_" :> 2) @@
  ("temperature_summary_" :> 3) @@ ("temperature_data_" :> 4) @@
  ("temperature_statistics_" :> 5)

\* the place of the output a position of the execution is about to write
RankAt ==
  ("heatmap" :> 1) @@ ("trend" :> 2) @@ ("save_json" :> 3) @@ ("save_csv" :> 4) @@
  ("save_stats" :> 5)

\* the outputs of execution r that carry the given prefix
OutputsOf(r, prefix) ==
  {i \in 1..Len(writes) : writes[i].run = r /\ writes[i].name.prefix = prefix}

\* the aim_ids carried by the outputs of execution r with the given prefix
OutputIds(r, prefix) == {writes[i].name.id[1] : i \in OutputsOf(r, prefix)}

\* the keys of detailed_data
KeysOf(dd) == {dd[i].aim_id : i \in 1..Len(dd)}

\* the outputs of one execution appear in the order heat map, trends, summary, CSVs, statistics
WrittenInOrder ==
  \A i, j \in 1..Len(writes) :
    (i < j /\ writes[i].run = writes[j].run) =>
      StageRank[writes[i].name.prefix] <= StageRank[writes[j].name.prefix]

\* an execution whose statistics CSV exists has all its other outputs, each
\* written in full
StatisticsLast ==
  /\ \A r \in 1..run :
       OutputsOf(r, "temperature_statistics_") # {} =>
         /\ Cardinality(OutputsOf(r, "temperature_heatmap_")) = 1
         /\ Cardinality(OutputsOf(r, "temperature_summary_")) = 1
         /\ OutputIds(r, "temperature_trends_") # {}
         /\ OutputIds(r, "temperature_trends_") = OutputIds(r, "temperature_data_")
         /\ \A i \in 1..Len(writes) :
              (writes[i].run = r /\ writes[i].name.prefix # "temperature_statistics_") =>
                writes[i].complete
  /\ OutputsOf(run, "temperature_statistics_") # {} =>
       /\ OutputIds(run, "temperature_trends_") = KeysOf(detailed_data)
       /\ OutputIds(run, "temperature_data_") = KeysOf(detailed_data)

\* a stage that fails leaves at most the file it was writing, cut short; no
\* later output of the execution exists, and no step removes or changes an
\* output that was written
FailureKeepsEarlier ==
  /\ \E n \in 0..2 : Len(writes') = Len(writes) + n
  /\ SubSeq(writes', 1, Len(writes)) = writes
  /\ (pc \in WriteStages /\ pc' = "aborted") =>
       /\ \/ writes' = writes
          \/ /\ Len(writes') = Len(writes) + 1
             /\ ~writes'[Len(writes')].complete
             /\ writes'[Len(writes')].run = run
             /\ StageRank[writes'[Len(writes')].name.prefix] = RankAt[pc]
       /\ \A i \in 1..Len(writes') :
            writes'[i].run = run => StageRank[writes'[i].name.prefix] <= RankAt[pc]
       /\ \A i \in 1..Len(writes) : writes[i].run = run => writes[i].complete
       /\ OutputsOf(run, "temperature_statistics_") = {}

\* C22: in an execution with at least one successful fetch the outputs are
\* written in the order heat-map HTML, trend PNGs, summary JSON, per-location
\* CSVs, statistics CSV; when the statistics CSV of an execution exists all
\* its other outputs exist; a failing stage leaves the later outputs unwritten
\* and the earlier ones in place
C22_OutputsInFixedOrder ==
  /\ [](WrittenInOrder /\ StatisticsLast)
  /\ [][FailureKeepsEarlier]_vars

\* an execution fails while writing the second per-location CSV, after the file
\* was created: heat map, both trend plots, the summary and the first CSV are on
\* disk in full, the second CSV cut short, the statistics are not there
C22_Witness ==
  /\ pc = "aborted"
  /\ abort_cause = "write"
  /\ Cardinality(OutputsOf(run, "temperature_heatmap_")) = 1
  /\ Cardinality(OutputsOf(run, "temperature_trends_")) = 2
  /\ Cardinality(OutputsOf(run, "temperature_summary_")) = 1
  /\ Cardinality(OutputsOf(run, "temperature_data_")) = 2
  /\ ~writes[Len(writes)].complete
  /\ \A i \in 1..(Len(writes) - 1) : writes[i].complete
  /\ OutputsOf(run, "temperature_statistics_") = {}

\* ------------------------------------------------------------------ C23
\* the files written so far that carry the given name
CityFilesNamed(name) == {i \in 1..Len(city_files) : city_files[i].name = name}

\* the items of api_keys, among the first n, for whose year requests were issued
\* and every one of them returned None
YearsWithoutValue(n) ==
  {i \in 1..n : /\ IssuedFor(api_keys[i].year) # {}
                /\ \A j \in IssuedFor(api_keys[i].year) : issued[j].outcome = "none"}

\* C23: a year all of whose requests return None gets no folium map, and
\* create_heatmap still finishes: the year's CSV and JSON are written empty,
\* then the all-years CSV and JSON and one heatmap_<year>.html per item of
\* api_keys; also when that year is the first one or when no year has a value.
C23_YearWithoutValueStillFinishes ==
  /\ issued # << >> => ~(cpc = "aborted" /\ city_exc = "KeyError")
  /\ \A i \in YearsWithoutValue(Len(api_keys)) :
       (yi >= i /\ cpc \in {"year", "all_years", "html", "done"}) =>
         /\ \E f \in CityFilesNamed(YearCsv(api_keys[i].year)) : city_files[f].content = << >>
         /\ \E f \in CityFilesNamed(YearJson(api_keys[i].year)) : city_files[f].content = << >>
         /\ CityFilesNamed(YearMap(api_keys[i].year)) = {}
  /\ (cpc = "done" /\ issued # << >>) =>
       /\ CityFilesNamed(AllYearsCsv) # {}
       /\ CityFilesNamed(AllYearsJson) # {}
       /\ \A i \in 1..Len(api_keys) : CityFilesNamed(YearHtml(api_keys[i].year)) # {}

\* ------------------------------------------------------------------ C24
\* the failures of the first try block for which the script has a handler
ConfigFailsHandled ==
  \/ config_yaml.state \in {"missing", "unparseable"}
  \/ /\ config_yaml.state = "loaded"
     /\ (config_yaml.api_key = Null \/ config_yaml.satellite_output_directory = Null)

\* C24: when loading config.yaml fails in a handled way (file not found, YAML
\* parse error, api_key or satellite_output_directory missing) the script
\* terminates there: the coordinates block is never entered, coordinates.yaml
\* is never opened and no download is attempted.
C24_ConfigFailureTerminates ==
  ConfigFailsHandled =>
    /\ apc \in {"config", "exited"}
    /\ ~coordinates_opened
    /\ downloads = << >>

\* ------------------------------------------------------------------ C25
\* the entries of coordinates.yaml that have both a latitude and a longitude, in file order
RECURSIVE WithCoordinates(_)
WithCoordinates(entries) ==
  IF entries = << >> THEN << >>
  ELSE (IF Head(entries).latitude # Null /\ Head(entries).longitude # Null
        THEN <<Head(entries)>> ELSE << >>) \o WithCoordinates(Tail(entries))

\* C25: for every entry of coordinates.yaml in file order, the entry is skipped
\* with no request exactly when its latitude or longitude is missing, and
\* otherwise exactly one download is requested for it with the location
\* "<latitude>,<longitude>"; a failed download never stops the later entries.
C25_OneDownloadPerEntryWithCoordinates ==
  LET expected == WithCoordinates(coordinates_yaml.entries)
      done == WithCoordinates(SubSeq(coordinates_yaml.entries, 1, ei))
  IN /\ (apc = "entries" /\ api_key # Null /\ output_dir # Null) =>
          /\ Len(downloads) = Len(done)
          /\ \A i \in 1..Len(done) :
               /\ downloads[i].aim = done[i].aim
               /\ downloads[i].location =
                    LocationString(done[i].latitude[1], done[i].longitude[1])
     /\ (apc \in {"done", "exited", "crashed"} /\ coordinates_opened
         /\ coordinates_yaml.state = "loaded" /\ coordinates_yaml.entries # << >>
         /\ api_key # Null /\ output_dir # Null) =>
          /\ Len(downloads) = Len(expected)
          /\ \A i \in 1..Len(expected) : downloads[i].aim = expected[i].aim

\* ------------------------------------------------------------------ C26
\* the boxes whose class name is 'tree', in detection order
RECURSIVE TreeBoxes(_)
TreeBoxes(boxes) ==
  IF boxes = << >> THEN << >>
  ELSE (IF Names[Head(boxes).cls + 1] = "tree" THEN <<Head(boxes)>> ELSE << >>)
       \o TreeBoxes(Tail(boxes))

\* n is the integer that int() makes of the value x, x in tenths
IntegerOf(x, n) ==
  \/ x >= 0 /\ 10 * n <= x /\ x < 10 * n + 10
  \/ x < 0 /\ 10 * n >= x /\ x > 10 * n - 10

\* an entry of the loaded list is the tree box b: its class name is 'tree' and
\* its xh, yh, xw, yw are the integer x1, y1, x2, y2 of b
IsEntryOf(item, b) ==
  /\ item.t = "map"
  /\ item.class_name = YStr("tree")
  /\ \A f \in {"xh", "xw", "yh", "yw"} : item[f].t = "num"
  /\ IntegerOf(b.xyxy[1], item.xh.n)
  /\ IntegerOf(b.xyxy[2], item.yh.n)
  /\ IntegerOf(b.xyxy[3], item.xw.n)
  /\ IntegerOf(b.xyxy[4], item.yw.n)

\* the entries of the YAML file a call left are the trees of its boxes, and
\* segment_trees_with_sam builds one input_box of each
ListsTheTrees(r, trees) ==
  LET doc == LoadDetections(r.yaml[1].tree_detections, r.yaml[1].cut)
      read == InputBoxes(doc.items)
  IN /\ doc.kind = "list"
     /\ trees # << >>
     /\ Len(doc.items) = Len(trees)
     /\ r.count = Some(Len(doc.items))
     /\ \A i \in 1..Len(trees) : IsEntryOf(doc.items[i], trees[i])
     /\ read.exc = "none"
     /\ Len(read.boxes) = Len(trees)
     /\ \A i \in 1..Len(trees) : \A j \in 1..4 :
          /\ read.boxes[i][j].t = "num"
          /\ IntegerOf(trees[i].xyxy[j], read.boxes[i][j].n)

\* the YAML file a call left holds a beginning of the text: it is empty, it
\* cannot be parsed, or it lists the first trees, all but the last in full
ListsTheFirstTrees(r, trees) ==
  LET doc == LoadDetections(r.yaml[1].tree_detections, r.yaml[1].cut)
      read == InputBoxes(doc.items)
  IN \/ doc.kind \in {"none", "error"}
     \/ /\ doc.kind = "list"
        /\ Len(doc.items) >= 1
        /\ Len(doc.items) <= Len(trees)
        /\ \A i \in 1..(Len(doc.items) - 1) : IsEntryOf(doc.items[i], trees[i])
        /\ Len(read.boxes) >= Len(doc.items) - 1
        /\ \A i \in 1..(Len(doc.items) - 1) : \A j \in 1..4 :
             /\ read.boxes[i][j].t = "num"
             /\ IntegerOf(trees[i].xyxy[j], read.boxes[i][j].n)

\* C26 as stated: the detections YAML of
\* tree_detection.run_tree_detection_yolo_class has exactly one entry per box
\* of class 'tree', in detection order, whose xh, yh, xw, yw are the integer
\* x1, y1, x2, y2 of that box; the number of entries is tree_detected_count, no
\* box of another class appears, and the file is written if and only if at
\* least one tree was detected.
C26_YamlListsTheTrees ==
  tree_script = "tree_detection" =>
    \A c \in 1..Len(tree_calls) :
      LET r == tree_calls[c].result
          trees == TreeBoxes(tree_calls[c].env.boxes)
      IN r.count # Null =>
           /\ r.count[1] = Len(trees)
           /\ r.yaml # Null <=> trees # << >>
           /\ r.yaml # Null => ListsTheTrees(r, trees)

\* C26, amended: in every call of tree_detection.run_tree_detection_yolo_class
\* that has counted, tree_detected_count is the number of boxes of class 'tree',
\* the list that is dumped has one entry per such box, in detection order, and a
\* YAML file exists only if a tree was detected. If the call reports no error,
\* the file has exactly these entries, whose xh, yh, xw, yw are the integer x1,
\* y1, x2, y2 of the boxes, and it is written if and only if at least one tree
\* was detected. If the call reports an error, the trees may be detected and
\* the file missing or incomplete: there is no YAML file when saving the image
\* or opening the YAML file raises, and when yaml.dump raises after the file was
\* opened the file holds a beginning of the text: it is empty, cannot be parsed,
\* or lists the first trees in detection order, all but the last in full.
C26_YamlListsTheTreesOrFails ==
  tree_script = "tree_detection" =>
    \A c \in 1..Len(tree_calls) :
      LET r == tree_calls[c].result
          trees == TreeBoxes(tree_calls[c].env.boxes)
      IN /\ r.error \in {"none", "load", "predict", "open", "save", "dump"}
         /\ r.count = Null => r.yaml = Null
         /\ r.count # Null =>
              /\ r.count[1] = Len(trees)
              /\ r.yaml # Null =>
                   /\ trees # << >>
                   /\ Len(r.yaml[1].tree_detections) = Len(trees)
                   /\ \A i \in 1..Len(trees) :
                        /\ r.yaml[1].tree_detections[i].class_name = "tree"
                        /\ IntegerOf(trees[i].xyxy[1], r.yaml[1].tree_detections[i].xh)
                        /\ IntegerOf(trees[i].xyxy[2], r.yaml[1].tree_detections[i].yh)
                        /\ IntegerOf(trees[i].xyxy[3], r.yaml[1].tree_detections[i].xw)
                        /\ IntegerOf(trees[i].xyxy[4], r.yaml[1].tree_detections[i].yw)
              /\ r.error = "none" =>
                   /\ r.yaml # Null <=> trees # << >>
                   /\ r.yaml # Null => ListsTheTrees(r, trees)
              /\ r.error = "save" => r.yaml = Null
              /\ r.error = "dump" =>
                   /\ trees # << >>
                   /\ r.yaml # Null => ListsTheFirstTrees(r, trees)
              /\ r.error \in {"none", "save", "dump"}

\* a car and a tree are detected in one image and nothing fails: the YAML file
\* holds the tree alone; in another image two trees are detected and yaml.dump
\* raises: the file lists the first tree, and of the second an entry without
\* its coordinates, on which segment_trees_with_sam raises KeyError
C26_Witness ==
  /\ tree_script = "tree_detection"
  /\ \E c \in 1..Len(tree_calls) :
       /\ Len(tree_calls[c].env.boxes) = 2
       /\ tree_calls[c].env.boxes[1].cls = 1
       /\ tree_calls[c].result.error = "none"
       /\ tree_calls[c].result.yaml # Null
       /\ InputBoxes(LoadDetections(tree_calls[c].result.yaml[1].tree_detections,
                                    tree_calls[c].result.yaml[1].cut).items)
            = [boxes |-> << <<YNum(0), YNum(0), YNum(9), YNum(12)>> >>, exc |-> "none"]
  /\ \E c \in 1..Len(tree_calls) :
       /\ tree_calls[c].result.error = "dump"
       /\ tree_calls[c].result.count = Some(2)
       /\ tree_calls[c].result.yaml # Null
       /\ LET doc == LoadDetections(tree_calls[c].result.yaml[1].tree_detections,
                                    tree_calls[c].result.yaml[1].cut)
          IN /\ doc.kind = "list"
             /\ Len(doc.items) = 2
             /\ InputBoxes(doc.items)
                  = [boxes |-> << <<YNum(10), YNum(20), YNum(30), YNum(40)>> >>,
                     exc |-> "KeyError"]

\* ------------------------------------------------------------------ C27
\* the files of a listing whose extension the script accepts, in listing order
RECURSIVE AcceptedFiles(_, _)
AcceptedFiles(script, files) ==
  IF files = << >> THEN << >>
  ELSE (IF Accepted(script, Head(files)) THEN <<Head(files)>> ELSE << >>)
       \o AcceptedFiles(script, Tail(files))

\* C27: process_images_in_folder and process_directory pass every file of the
\* input folder with an accepted image extension to run_tree_detection_yolo_class
\* exactly once; a failure in one image (model load, prediction, image open or
\* save) is caught inside that call, and the remaining images are processed.
C27_EveryImageOnce ==
  /\ tpc \in {"files", "done"} =>
       /\ [i \in 1..Len(tree_calls) |-> tree_calls[i].image]
            = AcceptedFiles(tree_script, SubSeq(input_folder.files, 1, fi))
       /\ \A i, j \in 1..Len(tree_calls) : i # j => tree_calls[i].image # tree_calls[j].image
  /\ tpc = "done" => fi = Len(input_folder.files)
  /\ tpc \in {"crashed", "returned"} => ~input_folder.exists

\* the first of two images fails and the second is processed all the same
C27_Witness ==
  /\ tpc = "done"
  /\ Len(tree_calls) = 2
  /\ tree_calls[1].result.error # "none"
  /\ tree_calls[2].result.image # Null

\* ------------------------------------------------------------------ C28
\* C28: round trip across the scripts: for every (address, latitude, longitude)
\* that street_to_coordinate.py writes to coordinates.yaml,
\* coordinate_to_images.get_coordinates_from_yaml reads back the same
\* (latitude, longitude), and Temp_Statistic.get_coordinates_from_yaml reads
\* back exactly one location, with aim_id 'Aim 1' and the same address,
\* latitude and longitude.
C28_CoordinatesRoundTrip ==
  (coordinates_written # Null /\ coordinates_written[1].cut = WholeCoordinates) =>
    /\ images_read # Null =>
         /\ images_read[1].outcome = "return"
         /\ images_read[1].latitude = Some(street_lat.n)
         /\ images_read[1].longitude = Some(street_lng.n)
    /\ pipeline_read # Null =>
         /\ pipeline_read[1].outcome = "return"
         /\ Len(pipeline_read[1].coordinates_list) = 1
         /\ pipeline_read[1].coordinates_list[1].aim_id = [t |-> "str", n |-> 0, s |-> "Aim 1"]
         /\ pipeline_read[1].coordinates_list[1].address
              = [t |-> "str", n |-> 0, s |-> street_address]
         /\ pipeline_read[1].coordinates_list[1].latitude = [t |-> "num", n |-> street_lat.n, s |-> ""]
         /\ pipeline_read[1].coordinates_list[1].longitude = [t |-> "num", n |-> street_lng.n, s |-> ""]

\* an address made of digits is written and read back by both readers
C28_Witness ==
  /\ coordinates_written # Null
  /\ coordinates_written[1].cut = WholeCoordinates
  /\ street_address = "12"
  /\ images_read # Null
  /\ pipeline_read # Null

\* ------------------------------------------------------------------ C29
\* d is the date five calendar years before e: the same month and day of the
\* year e.year - 5 (29 February, which that year lacks, is taken as 28 February)
FiveCalendarYearsEarlier(d, e) ==
  /\ d.year = e.year - 5
  /\ d.month = e.month
  /\ d.day = IF e.day <= DaysInMonth(d.year, d.month) THEN e.day
             ELSE DaysInMonth(d.year, d.month)

\* C29 as stated: end_date is the current date and start_date is the date five
\* calendar years earlier, for every current date.
C29_FiveCalendarYears ==
  window # Null =>
    /\ window[1].end_date = today
    /\ FiveCalendarYearsEarlier(window[1].start_date, today)

\* C29, amended: end_date is the current date and start_date is the date
\* 5 * 365 = 1825 days earlier, for every current date.
C29_Window1825Days ==
  window # Null =>
    /\ window[1].end_date = today
    /\ window[1].start_date.month \in 1..12
    /\ window[1].start_date.day \in
         1..DaysInMonth(window[1].start_date.year, window[1].start_date.month)
    /\ ToOrdinal(window[1].end_date) - ToOrdinal(window[1].start_date) = 1825

\* on 1 March 2024 the window holds two leap days and starts on 3 March 2019
C29_Witness ==
  /\ window # Null
  /\ today = [year |-> 2024, month |-> 3, day |-> 1]
  /\ window[1].start_date = [year |-> 2019, month |-> 3, day |-> 3]

====
